---- MODULE Spec2Model ----
(***************************************************************************)
(* The Beatsource module of OrpheusDL: the construction-time session       *)
(* lifecycle of ModuleInterface (interface.py) over the OAuth client       *)
(* BeatsourceApi (beatsource_api.py).  Every upstream request is one step: *)
(* a request is issued, the clock may advance while it is in flight, and   *)
(* the step that receives the response runs the code up to the next        *)
(* request.                                                                *)
(***************************************************************************)
EXTENDS Integers, Sequences, FiniteSets, TLC

\* ---------------------------------------------------------------- bounds
\* The clock runs over 0..MaxTime.
MaxTime == 3
\* The token endpoint answers expires_in in 0..MaxExpiresIn.
MaxExpiresIn == 2
\* The longest list the upstream holds.
MaxCount == 250

\* ------------------------------------------------------------- Python values
\* Python's None for the string-valued fields.
None == "None"
\* Python's None for the number-valued fields (expires, expires_in).
NoneInt == -1

\* ------------------------------------------------------------------- text
\* A Python str is the sequence of its characters.
UpperChars == <<"A","B","C","D","E","F","G","H","I","J","K","L","M",
                "N","O","P","Q","R","S","T","U","V","W","X","Y","Z">>
LowerChars == <<"a","b","c","d","e","f","g","h","i","j","k","l","m",
                "n","o","p","q","r","s","t","u","v","w","x","y","z">>

\* str.lower() on one character.
LowerChar(c) ==
    IF \E i \in 1..26 : UpperChars[i] = c
    THEN LowerChars[CHOOSE i \in 1..26 : UpperChars[i] = c]
    ELSE c

\* str.lower()
Lower(s) == [i \in 1..Len(s) |-> LowerChar(s[i])]

\* Python's `sub in s` on strings.
Contains(s, sub) ==
    \E i \in 1..(Len(s) - Len(sub) + 1) : SubSeq(s, i, i + Len(sub) - 1) = sub

T_link == <<"l","i","n","k">>
T_subscription == <<"s","u","b","s","c","r","i","p","t","i","o","n">>
T_pro == <<"p","r","o">>
T_Territory == <<"T","e","r","r","i","t","o","r","y">>
T_region_locked == <<"r","e","g","i","o","n"," ","l","o","c","k","e","d">>
T_HTTP == <<"H","T","T","P"," ">>
T_colon == <<":"," ">>

\* str(status_code) for the statuses the upstream answers.
StatusText(status) ==
    CASE status = 200 -> <<"2","0","0">>
      [] status = 401 -> <<"4","0","1">>
      [] status = 403 -> <<"4","0","3">>
      [] status = 404 -> <<"4","0","4">>
      [] status = 500 -> <<"5","0","0">>

\* "Beatsource: Account does not have an active 'Link' subscription"
MsgNoLinkSubscription ==
    <<"B","e","a","t","s","o","u","r","c","e",":"," ",
      "A","c","c","o","u","n","t"," ","d","o","e","s"," ","n","o","t"," ",
      "h","a","v","e"," ","a","n"," ","a","c","t","i","v","e"," ",
      "'","L","i","n","k","'"," ",
      "s","u","b","s","c","r","i","p","t","i","o","n">>

T_detail_open == <<"{","\"","d","e","t","a","i","l","\"",":","\"">>
T_subscription_open ==
    <<"{","\"","s","u","b","s","c","r","i","p","t","i","o","n","\"",":","\"">>
T_close == <<"\"","}">>
T_empty_object == <<"{","}">>
T_Expecting_value == <<"E","x","p","e","c","t","i","n","g"," ","v","a","l","u","e">>

\* ------------------------------------------------------ upstream responses
\* The bodies the upstream answers an authorized GET with.  A body is the
\* text r.text, whether r.json() parses it, and the fields the code reads
\* from the parsed object ("" when the key is absent).
D_Territory_Restricted ==
    <<"T","e","r","r","i","t","o","r","y"," ",
      "R","e","s","t","r","i","c","t","e","d",".">>
D_Subscription_expired ==
    <<"S","u","b","s","c","r","i","p","t","i","o","n"," ",
      "e","x","p","i","r","e","d">>
D_Server_down == <<"S","e","r","v","e","r"," ","d","o","w","n">>
D_Bad_Gateway == <<"B","a","d"," ","G","a","t","e","w","a","y">>

S_bp_basic == <<"b","p","_","b","a","s","i","c">>
S_bp_link_pro == <<"b","p","_","l","i","n","k","_","p","r","o">>
S_Pro == <<"P","r","o">>

DetailBody(d) ==
    [text |-> T_detail_open \o d \o T_close, json |-> TRUE,
     detail |-> d, subscription |-> <<>>]
SubscriptionBody(s) ==
    [text |-> T_subscription_open \o s \o T_close, json |-> TRUE,
     detail |-> <<>>, subscription |-> s]
EmptyObjectBody ==
    [text |-> T_empty_object, json |-> TRUE, detail |-> <<>>, subscription |-> <<>>]
PlainBody(t) ==
    [text |-> t, json |-> FALSE, detail |-> <<>>, subscription |-> <<>>]

ErrorBodies ==
    {DetailBody(D_Territory_Restricted), DetailBody(D_Subscription_expired),
     DetailBody(D_Server_down), PlainBody(D_Bad_Gateway)}
AccountBodies ==
    {EmptyObjectBody, SubscriptionBody(S_bp_basic), SubscriptionBody(S_bp_link_pro),
     SubscriptionBody(S_Pro)}
ErrorStatuses == {401, 403, 500}

\* The answers to GET auth/o/introspect.
IntrospectResponses ==
    {[status |-> 200, body |-> b] : b \in AccountBodies \cup {PlainBody(D_Bad_Gateway)}}
    \cup {[status |-> st, body |-> b] : st \in ErrorStatuses, b \in ErrorBodies}

\* ------------------------------------------------------- BeatsourceApi._get
Raise(type, id, text) == [ok |-> FALSE, type |-> type, id |-> id, text |-> text]
Return(body) == [ok |-> TRUE, type |-> "none", id |-> "none", text |-> body.text]

\* The statuses _get takes for success.
OkStatuses == {200, 201, 202}

\* _get: the status decides between the parsed body and the exception raised.
Get(r) ==
    IF r.status = 401 THEN Raise("ValueError", "unauthorized", r.body.text)
    ELSE IF r.status = 403 /\ ~r.body.json
         THEN Raise("JSONDecodeError", "json_decode", T_Expecting_value)
    ELSE IF r.status = 403 /\ Contains(r.body.detail, T_Territory)
         THEN Raise("BeatsourceError", "region_locked", T_region_locked)
    ELSE IF r.status \notin OkStatuses
         THEN Raise("ConnectionError", "http_error",
                    T_HTTP \o StatusText(r.status) \o T_colon \o r.body.text)
    ELSE IF ~r.body.json
         THEN Raise("JSONDecodeError", "json_decode", T_Expecting_value)
    ELSE Return(r.body)

\* ------------------------------------------- ModuleInterface.valid_account
\* The Pro test without the lower-casing of the subscription.
IsProSubscription_CaseSensitive(sub) ==
    sub = S_bp_link_pro \/ Contains(sub, T_pro)

\* `sub == "bp_link_pro" or "pro" in sub` on the lower-cased subscription.
IsProSubscription(sub) ==
    Lower(sub) = S_bp_link_pro \/ Contains(Lower(sub), T_pro)

\* valid_account with the subscription check enabled, on the answer r of the
\* introspection request: the exception it raises, or whether it upgrades.
ValidAccount(r) ==
    LET g == Get(r) IN
    IF ~g.ok THEN [ok |-> FALSE, pro |-> FALSE, type |-> g.type, id |-> g.id,
                   text |-> g.text]
    ELSE IF r.body.subscription = <<>>
         THEN [ok |-> FALSE, pro |-> FALSE, type |-> "ModuleError",
               id |-> "no_subscription", text |-> MsgNoLinkSubscription]
    ELSE [ok |-> TRUE, pro |-> IsProSubscription(r.body.subscription),
          type |-> "none", id |-> "none", text |-> <<>>]

Tiers == {"MINIMUM", "LOW", "MEDIUM", "HIGH", "LOSSLESS", "HIFI", "ATMOS"}

\* quality_parse as __init__ builds it.
InitialQualityParse == [t \in Tiers |-> "medium"]

\* The three assignments valid_account makes for a Pro subscription.
UpgradeQuality(qp) ==
    [qp EXCEPT !["HIGH"] = "high", !["HIFI"] = "lossless", !["LOSSLESS"] = "lossless"]

\* The classification without the lower-casing of the message.
IsSubscriptionIssue_CaseSensitive(text) ==
    Contains(text, T_subscription) \/ Contains(text, T_link)

\* The classification taking every message for a subscription issue.
IsSubscriptionIssue_Always(text) == TRUE

\* __init__'s except branch: `"subscription" in err_msg or "link" in err_msg`
\* on err_msg = str(e).lower().
IsSubscriptionIssue(text) ==
    Contains(Lower(text), T_subscription) \/ Contains(Lower(text), T_link)

\* ------------------------------------------------------ BeatsourceApi.auth
\* The answers to POST auth/login/: the status, what the body is (the blank
\* username/password field errors, a non_field_errors object, another JSON
\* object, or no JSON at all) and whether it sets the sessionid cookie.
LoginBodies == {"blank", "non_field_errors", "other", "notjson"}
LoginResponses ==
    [status : {200, 400}, body : LoginBodies, setcookie : BOOLEAN]

\* The answers to GET auth/o/authorize/: the status and the Location header
\* (absent, without a code parameter, or carrying a code).
Locations == {"absent", "nocode", "code"}
AuthorizeResponses == [status : {302, 200}, location : Locations]

\* The tokens the upstream hands out; "" is an empty string.
AccessTokens == {"a1", "a2"}
RefreshTokens == {"r1", "r2"}
ExpiresIn == 0..MaxExpiresIn

\* The answers to POST auth/o/token/ with grant_type=authorization_code.
TokenResponses ==
    [status : {200}, access_token : AccessTokens \cup {None, ""},
     refresh_token : RefreshTokens \cup {None}, expires_in : ExpiresIn \cup {NoneInt},
     error_description : {None, "invalid_grant"}]
    \cup {[status |-> 400, access_token |-> None, refresh_token |-> None,
           expires_in |-> NoneInt, error_description |-> "invalid_grant"]}

\* Step 1 of auth on the login answer r, with `jar` telling whether the
\* requests session holds a sessionid cookie after the answer was received.
AuthLogin(r, jar) ==
    IF r.status # 200
    THEN IF r.body = "blank"
         THEN Raise("BeatsourceError", "credentials_missing", <<>>)
         ELSE Raise("ConnectionError", "login_failed", <<>>)
    ELSE IF ~jar
    THEN IF r.body = "non_field_errors"
         THEN Raise("BeatsourceError", "login_non_field_errors", <<>>)
         ELSE Raise("BeatsourceError", "no_sessionid_cookie", <<>>)
    ELSE [ok |-> TRUE, type |-> "none", id |-> "none", text |-> <<>>]

\* The cookie jar of the requests session after an answer: a Set-Cookie is
\* stored, and a cookie already held stays.
JarAfter(jar, setcookie) == jar \/ setcookie

\* Step 2 of auth on the authorize answer r.
AuthAuthorize(r) ==
    IF r.status # 302
    THEN Raise("ConnectionError", "authorize_failed", <<>>)
    ELSE IF r.location = "absent"
    THEN Raise("BeatsourceError", "no_location", <<>>)
    ELSE IF r.location # "code"
    THEN Raise("BeatsourceError", "no_code", <<>>)
    ELSE [ok |-> TRUE, type |-> "none", id |-> "none", text |-> <<>>]

\* Python truthiness of a token: `not x` holds for None and for "".
Falsy(x) == x = None \/ x = ""

\* Step 3 taking expires_in for the absolute expiry.
AuthToken_ExpiresInAsExpiry(r, t, at, rt, ex) ==
    IF r.status # 200
    THEN [ok |-> FALSE, type |-> "ConnectionError", id |-> "token_failed",
          access_token |-> at, refresh_token |-> rt, expires |-> ex]
    ELSE IF Falsy(r.access_token) \/ Falsy(r.refresh_token) \/ r.expires_in = NoneInt
    THEN [ok |-> FALSE, type |-> "BeatsourceError", id |-> "token_missing_fields",
          access_token |-> r.access_token, refresh_token |-> r.refresh_token,
          expires |-> ex]
    ELSE [ok |-> TRUE, type |-> "none", id |-> "none",
          access_token |-> r.access_token, refresh_token |-> r.refresh_token,
          expires |-> r.expires_in]

\* Step 3 of auth on the token answer r at time t: the exception raised and
\* the fields of the client afterwards.
AuthToken(r, t, at, rt, ex) ==
    IF r.status # 200
    THEN [ok |-> FALSE, type |-> "ConnectionError", id |-> "token_failed",
          access_token |-> at, refresh_token |-> rt, expires |-> ex]
    ELSE IF Falsy(r.access_token) \/ Falsy(r.refresh_token) \/ r.expires_in = NoneInt
    THEN [ok |-> FALSE, type |-> "BeatsourceError", id |-> "token_missing_fields",
          access_token |-> r.access_token, refresh_token |-> r.refresh_token,
          expires |-> ex]
    ELSE [ok |-> TRUE, type |-> "none", id |-> "none",
          access_token |-> r.access_token, refresh_token |-> r.refresh_token,
          expires |-> t + r.expires_in]

\* --------------------------------------------------- BeatsourceApi.refresh
\* The answers to POST auth/o/token/ with grant_type=refresh_token.  A
\* non-200 answer has a JSON error object, an empty JSON object or no JSON;
\* a 200 answer may leave refresh_token out ("absent").
RefreshResponses ==
    [status : {400}, body : {"error", "empty", "notjson"}, access_token : {None},
     refresh_token : {"absent"}, expires_in : {NoneInt}]
    \cup [status : {200}, body : {"tokens"}, access_token : AccessTokens \cup {None},
          refresh_token : RefreshTokens \cup {"absent", None},
          expires_in : ExpiresIn \cup {NoneInt}]

\* refresh on the answer r at time t: what it returns ("None" for success,
\* "error" for a non-empty error object, "empty" for a falsy one) and the
\* fields of the client afterwards.
Refresh(r, t, at, rt, ex) ==
    IF r.status # 200
    THEN [returns |-> IF r.body = "empty" THEN "empty" ELSE "error",
          access_token |-> at, refresh_token |-> rt, expires |-> ex]
    ELSE LET rt2 == IF r.refresh_token = "absent" THEN rt ELSE r.refresh_token IN
         IF Falsy(r.access_token) \/ r.expires_in = NoneInt
         THEN [returns |-> "error", access_token |-> r.access_token,
               refresh_token |-> rt2, expires |-> ex]
         ELSE [returns |-> "None", access_token |-> r.access_token,
               refresh_token |-> rt2, expires |-> t + r.expires_in]

\* `if refresh_data:` in refresh_login.
Truthy(refresh_data) == refresh_data = "error"

\* `session["refresh_token"] is not None and datetime.now() > session["expires"]`
SessionExpired(s, t) == s.refresh_token # None /\ t > s.expires

\* The persisted triple with the three fields set to None.
ClearedSession ==
    [access_token |-> None, refresh_token |-> None, expires |-> NoneInt]

\* login(): `if not email or not password`
CredentialsBlank(email, pw) == email = "" \/ pw = ""

\* valid_account on each answer of the introspection request.
ValidAccountOf == [r \in IntrospectResponses |-> ValidAccount(r)]

\* ------------------------------------------------------------------ state
VARIABLES
    pc,                \* where construction stands: a line of __init__/login
                       \* about to run, or the request it waits on
    site,              \* the call of login() in progress: "init" (line 54),
                       \* "refresh" (line 100), "except" (line 71), or "none"
    vsite,             \* the valid_account call in flight: "login" (line 133)
                       \* or "init" (line 62)
    username,          \* module_settings["username"]
    password,          \* module_settings["password"]
    disable_subscription_check,
    persisted,         \* temporary_settings_controller: the stored triple
    access_token,      \* BeatsourceApi.access_token
    refresh_token,     \* BeatsourceApi.refresh_token
    expires,           \* BeatsourceApi.expires
    cookies,           \* whether the requests session holds a sessionid cookie
    session,           \* the local `session` of __init__
    refresh_data,      \* the local `refresh_data` of refresh_login
    quality_parse,     \* ModuleInterface.quality_parse
    now,               \* datetime.now()
    reqs,              \* the upstream requests of construction, in order
    lastResp,          \* the answer received last
    lastReq,           \* the catalog request issued last, after construction
    err,               \* the exception construction ended with
    opname,            \* the catalog operation the host has called
    opc,               \* where that operation stands
    endpoint,          \* the endpoint kind its requests go to
    phase,             \* the list being paged: "tracks" or "releases"
    upstream,          \* what the upstream holds for the id asked for
    total_tracks,      \* the local total_tracks / total_releases
    tracks,            \* the list accumulated so far
    page,              \* the page requested last
    creqs,             \* the requests of the operation, in order
    cresp,             \* the answer received last, as _get took it
    cfail,             \* how many requests of the operation failed
    out,               \* what the operation returned or raised
    args,              \* the arguments of the call: the id asked for, the
                       \* `data` cache handed in, the quality tier
    playlist_data      \* the local playlist_data of get_playlist_info

vars == <<pc, site, vsite, username, password, disable_subscription_check,
          persisted, access_token, refresh_token, expires, cookies, session,
          refresh_data, quality_parse, now, reqs, lastResp, lastReq, err,
          opname, opc, endpoint, phase, upstream, total_tracks, tracks, page,
          creqs, cresp, cfail, out, args, playlist_data>>

\* The state of the catalog operation in progress.
catalog == <<opname, opc, endpoint, phase, upstream, total_tracks, tracks, page,
             creqs, cresp, cfail, out, args, playlist_data>>

config == <<username, password, disable_subscription_check>>
client == <<access_token, refresh_token, expires>>

NoError == [type |-> "none", id |-> "none"]

\* What the host has stored when the module is constructed: nothing, or the
\* triple an earlier run saved.
StoredSessions ==
    {ClearedSession}
    \cup {[access_token |-> "a0", refresh_token |-> "r0", expires |-> e] :
            e \in 0..MaxTime}

\* No catalog operation has been called.
CatalogIdle ==
    /\ opname = "none"
    /\ opc = "idle"
    /\ endpoint = "none"
    /\ phase = "none"
    /\ total_tracks = 0
    /\ tracks = <<>>
    /\ page = 0
    /\ creqs = <<>>
    /\ cresp = [kind |-> "none"]
    /\ cfail = 0
    /\ out = [kind |-> "none"]
    /\ args = [kind |-> "none"]
    /\ playlist_data = [kind |-> "none"]

Init ==
    /\ pc = "start"
    /\ site = "none"
    /\ vsite = "none"
    /\ username \in {"", "user"}
    /\ password \in {"", "secret"}
    /\ disable_subscription_check \in BOOLEAN
    /\ persisted \in StoredSessions
    /\ access_token = None
    /\ refresh_token = None
    /\ expires = NoneInt
    /\ cookies = FALSE
    /\ session = ClearedSession
    /\ refresh_data = "unset"
    /\ quality_parse = InitialQualityParse
    /\ now = 1
    /\ reqs = <<>>
    /\ lastResp = [kind |-> "none"]
    /\ lastReq = [kind |-> "none"]
    /\ err = NoError
    /\ CatalogIdle
    /\ upstream = [count |-> 0, actual |-> 0, flavor |-> "plain"]

\* The pcs at which a request is in flight.
Waiting == {"w_login", "w_authorize", "w_token", "w_introspect", "w_refresh"}

\* Time passes while a request is in flight, between the host's calls, and
\* between the reading of the clock that dates the tokens and the expiry
\* test of line 57.
Tick ==
    /\ pc \in Waiting \cup {"gate", "done"}
    /\ now < MaxTime
    /\ now' = now + 1
    /\ UNCHANGED <<pc, site, vsite, config, persisted, client, cookies, session,
                   refresh_data, quality_parse, reqs, lastResp, lastReq, err>>
    /\ UNCHANGED catalog

\* An exception leaves __init__.
Fail(e) ==
    /\ pc' = "failed"
    /\ err' = [type |-> e.type, id |-> e.id]

\* _save_session followed by login()'s return to its caller: line 54 assigns
\* the saved triple to `session` and goes on to the expiry test; line 100
\* returns from refresh_login to the validation of line 62; line 71 ends
\* __init__.
LoginReturn ==
    /\ persisted' = [access_token |-> access_token', refresh_token |-> refresh_token',
                     expires |-> expires']
    /\ site' = "none"
    /\ err' = err
    /\ IF site = "init" THEN session' = persisted' /\ pc' = "gate"
       ELSE IF site = "refresh" THEN session' = session /\ pc' = "validate"
       ELSE session' = session /\ pc' = "done"

\* __init__, lines 43-52: load the stored triple into the client; without a
\* refresh_token log in, otherwise go to the expiry test.
Start ==
    /\ pc = "start"
    /\ session' = persisted
    /\ access_token' = persisted.access_token
    /\ refresh_token' = persisted.refresh_token
    /\ expires' = persisted.expires
    /\ IF persisted.refresh_token = None
       THEN pc' = "login" /\ site' = "init"
       ELSE pc' = "gate" /\ site' = site
    /\ UNCHANGED <<vsite, config, persisted, cookies, refresh_data, quality_parse,
                   now, reqs, lastResp, lastReq, err>>
    /\ UNCHANGED catalog

\* login(), lines 106-117, up to the login request auth() posts.
LoginEnter ==
    /\ pc = "login"
    /\ IF CredentialsBlank(username, password)
       THEN /\ Fail([type |-> "ModuleError", id |-> "credentials_missing"])
            /\ reqs' = reqs
       ELSE /\ reqs' = Append(reqs, "login")
            /\ pc' = "w_login"
            /\ err' = err
    /\ UNCHANGED <<site, vsite, config, persisted, client, cookies, session,
                   refresh_data, quality_parse, now, lastResp, lastReq>>
    /\ UNCHANGED catalog

\* auth(), lines 49-97: the login answer, then the authorize request.
LoginResponse(r) ==
    /\ pc = "w_login"
    /\ cookies' = JarAfter(cookies, r.setcookie)
    /\ lastResp' = [kind |-> "login", status |-> r.status, body |-> r.body,
                    setcookie |-> r.setcookie]
    /\ LET o == AuthLogin(r, cookies') IN
       IF o.ok
       THEN reqs' = Append(reqs, "authorize") /\ pc' = "w_authorize" /\ err' = err
       ELSE Fail(o) /\ reqs' = reqs
    /\ UNCHANGED <<site, vsite, config, persisted, client, session, refresh_data,
                   quality_parse, now, lastReq>>
    /\ UNCHANGED catalog

\* auth(), lines 97-135: the authorize answer, then the token request.
AuthorizeResponse(r) ==
    /\ pc = "w_authorize"
    /\ lastResp' = [kind |-> "authorize", status |-> r.status, location |-> r.location]
    /\ LET o == AuthAuthorize(r) IN
       IF o.ok
       THEN reqs' = Append(reqs, "token") /\ pc' = "w_token" /\ err' = err
       ELSE Fail(o) /\ reqs' = reqs
    /\ UNCHANGED <<site, vsite, config, persisted, client, cookies, session,
                   refresh_data, quality_parse, now, lastReq>>
    /\ UNCHANGED catalog

\* auth(), lines 135-155, and login(), lines 119-135: the token answer, the
\* error_description test, then valid_account: its introspection request,
\* or with the subscription check disabled the save and the return.
TokenResponse(r) ==
    /\ pc = "w_token"
    /\ lastResp' = [kind |-> "token", status |-> r.status, access_token |-> r.access_token,
                    refresh_token |-> r.refresh_token, expires_in |-> r.expires_in,
                    error_description |-> r.error_description, at |-> now]
    /\ LET o == AuthToken(r, now, access_token, refresh_token, expires) IN
       /\ access_token' = o.access_token
       /\ refresh_token' = o.refresh_token
       /\ expires' = o.expires
       /\ IF ~o.ok
          THEN /\ Fail(o)
               /\ UNCHANGED <<site, vsite, persisted, session, reqs>>
          ELSE IF r.error_description # None
          THEN /\ Fail([type |-> "ModuleError", id |-> "error_description"])
               /\ UNCHANGED <<site, vsite, persisted, session, reqs>>
          ELSE IF disable_subscription_check
          THEN /\ LoginReturn
               /\ UNCHANGED <<vsite, reqs>>
          ELSE /\ reqs' = Append(reqs, "introspect")
               /\ vsite' = "login"
               /\ pc' = "w_introspect"
               /\ UNCHANGED <<site, persisted, session, err>>
    /\ UNCHANGED <<config, cookies, refresh_data, quality_parse, now, lastReq>>
    /\ UNCHANGED catalog

\* __init__, line 57: the expiry test; refresh_login posts the refresh
\* request when the session has expired.
Gate ==
    /\ pc = "gate"
    /\ IF SessionExpired(session, now)
       THEN reqs' = Append(reqs, "refresh") /\ pc' = "w_refresh"
       ELSE reqs' = reqs /\ pc' = "validate"
    /\ UNCHANGED <<site, vsite, config, persisted, client, cookies, session,
                   refresh_data, quality_parse, now, lastResp, lastReq, err>>
    /\ UNCHANGED catalog

\* refresh(), lines 172-196, and refresh_login, lines 93-104: the refresh
\* answer; on an error value the stored triple is cleared and login() is
\* called, otherwise the session is saved.
RefreshResponse(r) ==
    /\ pc = "w_refresh"
    /\ lastResp' = [kind |-> "refresh", status |-> r.status, body |-> r.body,
                    access_token |-> r.access_token, refresh_token |-> r.refresh_token,
                    expires_in |-> r.expires_in, at |-> now]
    /\ LET o == Refresh(r, now, access_token, refresh_token, expires) IN
       /\ access_token' = o.access_token
       /\ refresh_token' = o.refresh_token
       /\ expires' = o.expires
       /\ refresh_data' = o.returns
       /\ IF Truthy(o.returns)
          THEN /\ persisted' = ClearedSession
               /\ pc' = "login"
               /\ site' = "refresh"
          ELSE /\ persisted' = [access_token |-> o.access_token,
                                refresh_token |-> o.refresh_token,
                                expires |-> o.expires]
               /\ pc' = "validate"
               /\ site' = site
    /\ UNCHANGED <<vsite, config, cookies, session, quality_parse, now, reqs,
                   lastReq, err>>
    /\ UNCHANGED catalog

\* __init__, lines 61-62: valid_account; with the subscription check
\* disabled it does nothing and __init__ ends.
Validate ==
    /\ pc = "validate"
    /\ IF disable_subscription_check
       THEN pc' = "done" /\ UNCHANGED <<reqs, vsite>>
       ELSE reqs' = Append(reqs, "introspect") /\ vsite' = "init" /\ pc' = "w_introspect"
    /\ UNCHANGED <<site, config, persisted, client, cookies, session, refresh_data,
                   quality_parse, now, lastResp, lastReq, err>>
    /\ UNCHANGED catalog

\* valid_account, lines 140-152, on the introspection answer.  Called from
\* login() (line 133) an exception leaves login() and __init__; called from
\* __init__ (line 62) the except branch of lines 63-74 clears the stored
\* triple and calls login() when the message names a subscription or a link,
\* and re-raises otherwise.
IntrospectResponse(r) ==
    /\ pc = "w_introspect"
    /\ LET v == ValidAccountOf[r] IN
       /\ lastResp' = [kind |-> "introspect", status |-> r.status, ok |-> v.ok,
                       pro |-> v.pro, type |-> v.type, id |-> v.id, text |-> v.text,
                       vsite |-> vsite, json |-> r.body.json,
                       subscription |-> r.body.subscription]
       /\ quality_parse' = IF v.ok /\ v.pro THEN UpgradeQuality(quality_parse)
                           ELSE quality_parse
       /\ UNCHANGED client
       /\ IF v.ok
          THEN IF vsite = "login"
               THEN LoginReturn
               ELSE pc' = "done" /\ UNCHANGED <<site, persisted, session, err>>
          ELSE IF vsite = "init" /\ IsSubscriptionIssue(v.text)
               THEN /\ persisted' = ClearedSession
                    /\ pc' = "login"
                    /\ site' = "except"
                    /\ UNCHANGED <<session, err>>
               ELSE Fail(v) /\ UNCHANGED <<site, persisted, session>>
    /\ UNCHANGED <<vsite, config, cookies, refresh_data, now, reqs, lastReq>>
    /\ UNCHANGED catalog

\* The authorized GETs of the catalog operations, issued by the host after
\* construction through _get: headers(use_access_token=True) sends the
\* client's access_token, whatever the clock says.
CatalogKinds == {"track", "release", "playlist", "chart", "artist", "label",
                 "search", "download"}

CatalogGet(kind) ==
    /\ pc = "done"
    /\ lastReq' = [kind |-> kind, at |-> now, expires |-> expires,
                   access_token |-> access_token]
    /\ UNCHANGED <<pc, site, vsite, config, persisted, client, cookies, session,
                   refresh_data, quality_parse, now, reqs, lastResp, err>>
    /\ UNCHANGED catalog

Next ==
    \/ Tick
    \/ Start
    \/ LoginEnter
    \/ \E r \in LoginResponses : LoginResponse(r)
    \/ \E r \in AuthorizeResponses : AuthorizeResponse(r)
    \/ \E r \in TokenResponses : TokenResponse(r)
    \/ Gate
    \/ \E r \in RefreshResponses : RefreshResponse(r)
    \/ Validate
    \/ \E r \in IntrospectResponses : IntrospectResponse(r)
    \/ \E k \in CatalogKinds : CatalogGet(k)

Spec == Init /\ [][Next]_vars

\* Construction on its own, for termination: the same actions, with every
\* login, authorize and introspection answer, and the token and refresh
\* answers with one token name of each kind and the lifetime 0 (a token
\* that is current at the expiry test when no time has passed and expired
\* when some has), which keeps every branch of auth(), login(), refresh()
\* and valid_account.
FairAnswers ==
    [login |-> LoginResponses,
     token |->
        {r \in TokenResponses :
            /\ r.access_token # "a2"
            /\ r.refresh_token # "r2"
            /\ r.expires_in \in {0, NoneInt}
            /\ (r.status = 200 /\ r.error_description # None) =>
                  (r.access_token = "a1" /\ r.refresh_token = "r1"
                     /\ r.expires_in = 0)},
     refresh |->
        {r \in RefreshResponses :
            /\ r.access_token # "a2"
            /\ r.refresh_token # "r2"
            /\ r.expires_in \in {0, NoneInt}},
     introspect |-> IntrospectResponses]

\* The steps of __init__: each statement runs once the one before it has
\* ended, and each request is answered.
Construct ==
    \/ pc = "start" /\ Start
    \/ pc = "login" /\ LoginEnter
    \/ pc = "w_login" /\ \E r \in FairAnswers.login : LoginResponse(r)
    \/ pc = "w_authorize" /\ \E r \in AuthorizeResponses : AuthorizeResponse(r)
    \/ pc = "w_token" /\ \E r \in FairAnswers.token : TokenResponse(r)
    \/ pc = "gate" /\ Gate
    \/ pc = "w_refresh" /\ \E r \in FairAnswers.refresh : RefreshResponse(r)
    \/ pc = "validate" /\ Validate
    \/ pc = "w_introspect" /\ \E r \in FairAnswers.introspect : IntrospectResponse(r)

FairNext == Tick \/ Construct

\* Construction from no stored session, one that has expired or one that is
\* still valid.
FairInit ==
    /\ Init
    /\ password = "secret"
    /\ persisted.expires \in {NoneInt, 0, MaxTime}

\* Python runs __init__ to its end: no statement waits for ever, and every
\* request returns or raises.
FairSpec == FairInit /\ [][FairNext]_vars /\ WF_vars(Construct)

\* ============================================================== catalog
\* ------------------------------------------------------- upstream catalog
\* `per_page = 100`: the page size of the upstream lists and of the page
\* arithmetic.
per_page == 100

\* The lengths of the lists the upstream holds.
Counts == {0, 1, 2, per_page, per_page + 1, 2 * per_page, MaxCount}

\* What the items of a list look like: all well-formed; the second without
\* an id; the second with the id of the first; the second, on the playlist
\* endpoint, with a null `track`; the second with a null length_ms; the
\* second with a length_ms of 0.
Flavors == {"plain", "noid", "dup", "nulltrack", "nolength", "zerolength"}

\* The upstream's list for the id asked for: the `count` its pages declare,
\* the number of items it really returns, and what the items look like.
Upstreams ==
    {u \in [count : Counts, actual : Counts, flavor : Flavors] :
        /\ u.actual <= u.count
        /\ u.flavor # "plain" => u.actual = u.count}

\* The k-th item of the list: whether the playlist wrapper carries a track,
\* the track's id (0 when it has none) and its length_ms (NoneInt when it
\* is null).
ItemAt(flavor, k) ==
    [track |-> ~(flavor = "nulltrack" /\ k = 2),
     id |-> IF flavor = "noid" /\ k = 2 THEN 0
            ELSE IF flavor = "dup" /\ k = 2 THEN 1
            ELSE k,
     length_ms |-> IF flavor = "nolength" /\ k = 2 THEN NoneInt
                   ELSE IF flavor = "zerolength" /\ k = 2 THEN 0
                   ELSE 1500 * k]

\* The `results` of page p.
PageItems(u, p) ==
    LET first == (p - 1) * per_page
        left == u.actual - first
        n == IF left <= 0 THEN 0 ELSE IF left < per_page THEN left ELSE per_page
    IN [i \in 1..n |-> ItemAt(u.flavor, first + i)]

T_404 == <<"4","0","4">>
T_Not_found == <<"N","o","t"," ","f","o","u","n","d">>
T_document == <<"{",".",".",".","}">>
D_Not_found == <<"N","o","t"," ","f","o","u","n","d",".">>
D_Ref_1404 == <<"r","e","f"," ","1","4","0","4">>

\* The JSON document of an entity or of a page.
DocumentBody ==
    [text |-> T_document, json |-> TRUE, detail |-> <<>>, subscription |-> <<>>]

CatalogErrorBodies ==
    {DetailBody(D_Not_found), DetailBody(D_Territory_Restricted),
     DetailBody(D_Ref_1404), PlainBody(D_Bad_Gateway)}
CatalogErrorStatuses == {401, 403, 404, 500}

\* The answers to an authorized catalog GET.
CatalogResponses ==
    {[status |-> st, body |-> DocumentBody] : st \in OkStatuses}
    \cup {[status |-> 200, body |-> PlainBody(D_Bad_Gateway)]}
    \cup {[status |-> st, body |-> b] : st \in CatalogErrorStatuses,
                                        b \in CatalogErrorBodies}

\* The URLs a download answer names.
Urls == {"u1", "u2"}

\* A download answer whose `location` is u; "" is an empty location.
LocationBody(u) ==
    [text |-> T_document, json |-> TRUE, detail |-> <<>>, subscription |-> <<>>,
     location |-> u]

\* The successful answers to the download request: a location, an empty
\* one, or `{}` with none.
DownloadResponses ==
    {[status |-> 200, body |-> LocationBody(u)] : u \in Urls \cup {""}}
    \cup {[status |-> 200, body |-> EmptyObjectBody]}

\* `stream_data.get("location")`
Location(r) ==
    IF "location" \in DOMAIN r.body THEN r.body.location ELSE None

\* _get clearing the client's tokens on a 401.
GetLeavesSession_ClearsOn401(s, r) ==
    IF r.status = 401 THEN ClearedSession ELSE s

\* _get assigns none of the client's fields: the fields after the answer r.
GetLeavesSession(s, r) == s

\* --------------------------------------------------- _generate_artwork_url
\* `max_size: int = 1400`
max_size == 1400

T_template == <<"{","w","}","x","{","h","}">>
DigitChars == <<"0","1","2","3","4","5","6","7","8","9">>

\* `\d`
IsDigit(c) == \E d \in 1..Len(DigitChars) : DigitChars[d] = c

\* Whether s holds n digits from position i on.
DigitRun(s, i, n) ==
    /\ i + n - 1 <= Len(s)
    /\ \A k \in i..(i + n - 1) : IsDigit(s[k])

\* The length of the match of `\d{3,4}x\d{3,4}` that starts at position i
\* of s, 0 when there is none: either number takes four digits when there
\* are four, and the first must be followed by the x.
MatchLen(s, i) ==
    LET n1 == IF DigitRun(s, i, 4) /\ i + 4 <= Len(s) /\ s[i + 4] = "x" THEN 4
              ELSE IF DigitRun(s, i, 3) /\ i + 3 <= Len(s) /\ s[i + 3] = "x" THEN 3
              ELSE 0
        j == i + n1 + 1
        n2 == IF DigitRun(s, j, 4) THEN 4 ELSE IF DigitRun(s, j, 3) THEN 3 ELSE 0
    IN IF n1 = 0 \/ n2 = 0 THEN 0 ELSE n1 + 1 + n2

\* `re.search(res_pattern, cover_url)` finds a match.
HasMatch(s) == \E i \in 1..Len(s) : MatchLen(s, i) > 0

\* A substitution that replaces the first match only.
SubFrom_FirstOnly(s, i) ==
    IF \A k \in i..Len(s) : MatchLen(s, k) = 0 THEN SubSeq(s, i, Len(s))
    ELSE LET first == CHOOSE k \in i..Len(s) :
                         /\ MatchLen(s, k) > 0
                         /\ \A j \in i..(k - 1) : MatchLen(s, j) = 0
         IN SubSeq(s, i, first - 1) \o T_template
              \o SubSeq(s, first + MatchLen(s, first), Len(s))

\* `re.sub(res_pattern, "{w}x{h}", cover_url)` from position i on: every
\* match, found from left to right without overlap, becomes the template.
RECURSIVE SubFrom(_, _)
SubFrom(s, i) ==
    IF i > Len(s) THEN <<>>
    ELSE IF MatchLen(s, i) > 0 THEN T_template \o SubFrom(s, i + MatchLen(s, i))
    ELSE <<s[i]>> \o SubFrom(s, i + 1)

\* `str(size)` of a natural number.
RECURSIVE DecimalOf(_)
DecimalOf(n) ==
    IF n < 10 THEN <<DigitChars[n + 1]>>
    ELSE DecimalOf(n \div 10) \o <<DigitChars[(n % 10) + 1]>>

\* `cover_url.format(w=size, h=size)` from position i on, v being str(size):
\* `{w}` and `{h}` become v, `{{` and `}}` a single brace; any other brace
\* makes format raise.
RECURSIVE FormatFrom(_, _, _)
FormatFrom(s, i, v) ==
    IF i > Len(s) THEN [ok |-> TRUE, text |-> <<>>]
    ELSE LET two == i + 1 <= Len(s)
             field == /\ i + 2 <= Len(s)
                      /\ s[i] = "{" /\ s[i + 1] \in {"w", "h"} /\ s[i + 2] = "}"
             doubled == two /\ s[i] \in {"{", "}"} /\ s[i + 1] = s[i]
             piece == IF field THEN v ELSE <<s[i]>>
             next == IF field THEN i + 3 ELSE IF doubled THEN i + 2 ELSE i + 1
         IN IF s[i] \in {"{", "}"} /\ ~field /\ ~doubled
            THEN [ok |-> FALSE, text |-> <<>>]
            ELSE LET rest == FormatFrom(s, next, v)
                 IN [ok |-> rest.ok,
                     text |-> IF rest.ok THEN piece \o rest.text ELSE <<>>]

\* _generate_artwork_url(cover_url, size): the size is capped, a literal
\* resolution becomes the template, and the template is filled in.
generate_artwork_url(cover_url, size) ==
    LET capped == IF size > max_size THEN max_size ELSE size
        url == IF HasMatch(cover_url) THEN SubFrom(cover_url, 1) ELSE cover_url
    IN FormatFrom(url, 1, DecimalOf(capped))

\* ------------------------------------------------- playlist/chart metadata
\* `self.cover_size`
cover_size == 1400

\* A field of a JSON record: the key is missing, its value is null, or it
\* has the value v.
Absent == [has |-> "absent"]
Null == [has |-> "null"]
Value(v) == [has |-> "value", value |-> v]

T_date == <<"2","0","2","4","-","0","5","-","0","1">>
U_cover == <<"a","/">> \o T_template \o <<"/","b">>
U_broken == <<"a","/","{","/","b">>

\* The metadata of a playlist or chart record: `person` (a value is its
\* owner_name, "" when it has none), the date (change_date of a chart,
\* updated_date of a playlist) and the image (the dynamic_uri of `image`
\* of a chart, of the first of `release_images` of a playlist).
Metas ==
    [person : {Absent, Null, Value("DJ"), Value("")},
     date : {Absent, Null, Value(T_date)},
     image : {Absent, Null, Value(U_cover), Value(U_broken)}]

\* A record with all three.
CompleteMetadata ==
    [person |-> Value("DJ"), date |-> Value(T_date), image |-> Value(U_cover)]

\* get_playlist_info, lines 414 and 416: on the chart endpoint
\* `playlist_data.get("person", {}).get(...)` and
\* `playlist_data.get("image", {}).get(...)` call .get on None when the key
\* is there with a null value.
MetadataRaises(ep, m) ==
    ep = "chart" /\ (m.person = Null \/ m.image = Null)

\* Lines 414 and 418: the creator.
Creator(ep, m) ==
    IF ep # "chart" THEN "User"
    ELSE IF m.person.has = "value" /\ m.person.value # "" THEN m.person.value
    ELSE "Beatsource"

\* Lines 415 and 419: the first four characters of the date, if there is one.
ReleaseYear(m) ==
    IF m.date.has = "value" /\ m.date.value # <<>>
    THEN Value(SubSeq(m.date.value, 1,
                      IF Len(m.date.value) < 4 THEN Len(m.date.value) ELSE 4))
    ELSE Null

\* Lines 430-437: the cover URL generated from the raw one, None when there
\* is no raw URL or when generating it raises.
GeneratedCover(m) ==
    IF m.image.has # "value" \/ m.image.value = <<>> THEN Null
    ELSE LET g == generate_artwork_url(m.image.value, cover_size)
         IN IF g.ok THEN Value(g.text) ELSE Null

\* --------------------------------------------------- paginated operations
\* `[t.get("track") for t in results if t.get("track")]` on the playlist
\* endpoint; on every other endpoint the items are the records themselves.
TracksOfPage(ep, items) ==
    LET kept == IF ep = "playlist" THEN SelectSeq(items, LAMBDA t : t.track)
                ELSE items
    IN [i \in 1..Len(kept) |-> [id |-> kept[i].id, length_ms |-> kept[i].length_ms]]

\* get_playlist_info: `"404" in str(e) or "Not found" in str(e)`
IsNotFound(text) == Contains(text, T_404) \/ Contains(text, T_Not_found)

\* get_playlist_info: the total taken from the first page: `count`, or the
\* length of the first page when count is no positive integer.
PlaylistTotal(count, first) == IF count <= 0 THEN Len(first) ELSE count

\* get_label_info: `count or len(label_tracks)`
LabelTotal(count, first) == IF count = 0 THEN Len(first) ELSE count

\* get_playlist_info: the last page of range(2, (total - 1) // per_page + 2).
PlaylistLastPage(total) == (total - 1) \div per_page + 1

\* The other operations: the last page of range(2, total // 100 + 2).
LastPage(total) == total \div per_page + 1

\* The numbering without the shift to 1-based numbers.
Numbered_ZeroBased(ts) ==
    [i \in 1..Len(ts) |->
        IF ts[i].id # 0
        THEN [id |-> ts[i].id, track_number |-> i - 1, total_tracks |-> Len(ts)]
        ELSE [id |-> 0, track_number |-> NoneInt, total_tracks |-> NoneInt]]

\* get_playlist_info, lines 403-410: a track with an id gets track_number
\* (enumerate's i + 1, the position in the 1-based sequence) and
\* total_tracks; a track without one is skipped (NoneInt: the keys are not
\* set).
Numbered(ts) ==
    [i \in 1..Len(ts) |->
        IF ts[i].id # 0
        THEN [id |-> ts[i].id, track_number |-> i, total_tracks |-> Len(ts)]
        ELSE [id |-> 0, track_number |-> NoneInt, total_tracks |-> NoneInt]]

\* The cache built in list order: a later track replaces an earlier one
\* stored under the same id.
CacheOf(ns) ==
    [d \in {ns[i].id : i \in {j \in 1..Len(ns) : ns[j].id # 0}} |->
        ns[CHOOSE i \in 1..Len(ns) :
              /\ ns[i].id = d
              /\ \A j \in 1..Len(ns) : ns[j].id = d => j <= i]]

\* The ids of a list, as the output records carry them.
IdsOf(ts) == [i \in 1..Len(ts) |-> ts[i].id]

\* The filter keeping every track that has an id.
ValidTracks_IgnoresLength(ts) == SelectSeq(ts, LAMBDA t : t.id # 0)

\* get_playlist_info, line 440: `[t for t in playlist_tracks if t and
\* t.get("id") and t.get("length_ms") is not None]`
ValidTracks(ts) ==
    SelectSeq(ts, LAMBDA t : t.id # 0 /\ t.length_ms # NoneInt)

\* `(t.get("length_ms") or 0) // 1000` summed over the positions lo..hi.
RECURSIVE SecondsIn(_, _, _)
SecondsIn(ts, lo, hi) ==
    IF lo > hi THEN 0
    ELSE IF lo = hi
    THEN (IF ts[lo].length_ms = NoneInt THEN 0 ELSE ts[lo].length_ms) \div 1000
    ELSE LET mid == (lo + hi) \div 2
         IN SecondsIn(ts, lo, mid) + SecondsIn(ts, mid + 1, hi)

\* get_playlist_info, line 446: the duration of the valid tracks.
Duration(ts) == SecondsIn(ts, 1, Len(ts))

\* ------------------------------------------------------ catalog operations
\* The operations that page through a list.
Paginated == {"playlist", "artist", "label", "album"}

\* The operations of the module.
Operations == Paginated \cup {"search", "track_info", "track_cover", "track_download"}

\* The endpoint an operation asks first.
FirstEndpoint(name) ==
    IF name = "album" THEN "release"
    ELSE IF name \in {"track_info", "track_cover"} THEN "track"
    ELSE IF name = "track_download" THEN "download"
    ELSE name

\* One request: the endpoint kind, the metadata record or a list, the page.
Req(ep, what, p) == [endpoint |-> ep, what |-> what, page |-> p]

\* The answer r as _get takes it.
CatalogAnswer(r) ==
    LET g == Get(r) IN
    [kind |-> "catalog", status |-> r.status, json |-> r.body.json,
     detail |-> r.body.detail, body |-> r.body.text, location |-> Location(r),
     ok |-> g.ok, type |-> g.type, id |-> g.id, text |-> g.text]

\* What construction leaves behind; no catalog operation touches it.
construction == <<pc, site, vsite, config, persisted, cookies, session,
                  refresh_data, quality_parse, now, reqs, lastResp, lastReq, err>>

\* The client's fields after _get received r.
ClientAfterGet(r) ==
    LET s == GetLeavesSession([access_token |-> access_token,
                               refresh_token |-> refresh_token,
                               expires |-> expires], r)
    IN /\ access_token' = s.access_token
       /\ refresh_token' = s.refresh_token
       /\ expires' = s.expires

\* The locals of the operation after a step.
CStep(c, ep, ph, tot, ts, pg, rq, o) ==
    /\ opc' = c
    /\ endpoint' = ep
    /\ phase' = ph
    /\ total_tracks' = tot
    /\ tracks' = ts
    /\ page' = pg
    /\ creqs' = rq
    /\ out' = o

\* An exception leaves the operation.
CRaise(type, id, cause) ==
    CStep("raised", endpoint, phase, total_tracks, tracks, page, creqs,
          [kind |-> "raised", type |-> type, id |-> id, cause |-> cause,
           endpoint |-> endpoint])

\* The fallback keeping the playlist record when only the tracks request
\* was not found: the chart's tracks are asked for under the metadata of
\* the playlist.
PlaylistAttemptFailed_KeepsMetadata(a) ==
    IF endpoint = "playlist" /\ a.type = "ConnectionError" /\ IsNotFound(a.text)
    THEN IF phase = "tracks"
         THEN CStep("w_first", "chart", "tracks", 0, <<>>, 1,
                    Append(creqs, Req("chart", "tracks", 1)), out)
         ELSE CStep("w_meta", "chart", "none", 0, <<>>, 0,
                    Append(creqs, Req("chart", "meta", 0)), out)
    ELSE CRaise("ModuleError",
                IF a.type = "ConnectionError"
                THEN (IF endpoint = "chart" THEN "chart_failed" ELSE "playlist_failed")
                ELSE "unexpected_error",
                [type |-> a.type, id |-> a.id])

\* get_playlist_info, lines 332-352: the playlist attempt or the chart
\* attempt failed with the exception of answer a.
PlaylistAttemptFailed(a) ==
    IF endpoint = "playlist" /\ a.type = "ConnectionError" /\ IsNotFound(a.text)
    THEN CStep("w_meta", "chart", "none", 0, <<>>, 0,
               Append(creqs, Req("chart", "meta", 0)), out)
    ELSE CRaise("ModuleError",
                IF a.type = "ConnectionError"
                THEN (IF endpoint = "chart" THEN "chart_failed" ELSE "playlist_failed")
                ELSE "unexpected_error",
                [type |-> a.type, id |-> a.id])

\* get_label_info with one handler around both fetches: a failure of the
\* releases fetch empties the track list too.
ListDone_ReleasesFailureDropsTracks(ts, tot) ==
    IF opname = "label" /\ phase = "tracks"
    THEN CStep("w_first", endpoint, "releases", 0, <<>>, 1,
               Append(creqs, Req(endpoint, "releases", 1)),
               [kind |-> "label_tracks",
                tracks |-> IdsOf(SelectSeq(ts, LAMBDA t : t.id # 0))])
    ELSE CStep("returned", endpoint, phase, tot, ts, page, creqs,
               [kind |-> "ArtistInfo",
                tracks |-> IF opname = "label" /\ cresp'.ok THEN out.tracks ELSE <<>>,
                albums |-> IdsOf(SelectSeq(ts, LAMBDA t : t.id # 0))])

\* The page loop is over with the list ts: the operation builds its output
\* record, or get_label_info goes on to its releases.  get_album_info, line
\* 544, divides every length_ms unguarded: a null length raises TypeError.
ListDone(ts, tot) ==
    IF opname = "playlist" /\ MetadataRaises(endpoint, playlist_data)
    THEN CStep("raised", endpoint, phase, tot, ts, page, creqs,
               [kind |-> "raised", type |-> "AttributeError", id |-> "none_get",
                cause |-> [type |-> "none", id |-> "none"],
                endpoint |-> endpoint])
    ELSE IF opname = "playlist"
    THEN CStep("returned", endpoint, phase, tot, ts, page, creqs,
               [kind |-> "PlaylistInfo", endpoint |-> endpoint,
                tracks |-> Numbered(ts), cache |-> CacheOf(Numbered(ts)),
                track_ids |-> IdsOf(ValidTracks(ts)),
                duration |-> Duration(ValidTracks(ts)),
                creator |-> Creator(endpoint, playlist_data),
                release_year |-> ReleaseYear(playlist_data),
                cover_url |-> GeneratedCover(playlist_data)])
    ELSE IF opname = "artist"
    THEN CStep("returned", endpoint, phase, tot, ts, page, creqs,
               [kind |-> "ArtistInfo", tracks |-> IdsOf(ts)])
    ELSE IF opname = "album" /\ \E i \in 1..Len(ts) : ts[i].length_ms = NoneInt
    THEN CStep("raised", endpoint, phase, tot, ts, page, creqs,
               [kind |-> "raised", type |-> "TypeError", id |-> "none_floordiv",
                cause |-> [type |-> "none", id |-> "none"],
                endpoint |-> endpoint])
    ELSE IF opname = "album"
    THEN CStep("returned", endpoint, phase, tot, ts, page, creqs,
               [kind |-> "AlbumInfo", tracks |-> IdsOf(ts), duration |-> Duration(ts)])
    ELSE IF phase = "tracks"
    THEN CStep("w_first", endpoint, "releases", 0, <<>>, 1,
               Append(creqs, Req(endpoint, "releases", 1)),
               [kind |-> "label_tracks",
                tracks |-> IdsOf(SelectSeq(ts, LAMBDA t : t.id # 0))])
    ELSE CStep("returned", endpoint, phase, tot, ts, page, creqs,
               [kind |-> "ArtistInfo", tracks |-> out.tracks,
                albums |-> IdsOf(SelectSeq(ts, LAMBDA t : t.id # 0))])

\* ------------------------------------------------------------ entity cache
\* An id as the module holds it: the integer of the API's JSON, or a decimal
\* string (the id of a URL, or str(id)).  As dict keys the two differ.
IntId(n) == [type |-> "int", value |-> n]
StrId(n) == [type |-> "str", value |-> n]

\* The two forms of the id of the track asked for, and of the release it
\* belongs to.
TrackIds == {IntId(1), StrId(1)}
ReleaseIds == {IntId(7), StrId(7)}

\* `track_data.get("release").get("id")`: the release id of the track
\* record, a JSON number.
ReleaseOfTrack == IntId(7)

\* The `data` caches handed to an operation: the keys they hold a record
\* under (`data=None` is the empty cache).
Caches == SUBSET (TrackIds \cup ReleaseIds)

\* get_track_info, line 559, and get_track_cover, line 658:
\* `data.get(track_id) or (data.get(int(track_id)) if
\* isinstance(track_id, str) and track_id.isdigit() else None)` finds a
\* record (a decimal string is all digits).
TrackCached(track_id, data) ==
    \/ track_id \in data
    \/ track_id.type = "str" /\ IntId(track_id.value) \in data

\* get_track_info, line 568, and get_album_info, line 513:
\* `album_id in data`.
ReleaseCached(album_id, data) == album_id \in data

\* The resolution taking HIGH for 256 kbit/s whatever the mapping says.
CodecOf_HighIgnoresMapping(tier, qp) ==
    IF tier \in {"LOSSLESS", "HIFI"}
    THEN [codec |-> "FLAC", bitrate |-> 1411, bit_depth |-> 16]
    ELSE [codec |-> "AAC",
          bitrate |-> IF tier = "HIGH" THEN 256 ELSE 128,
          bit_depth |-> NoneInt]

\* get_track_info, lines 613-624: the codec, bitrate and bit depth reported
\* for the tier asked for under the mapping qp.
CodecOf(tier, qp) ==
    IF tier \in {"LOSSLESS", "HIFI"}
    THEN [codec |-> "FLAC", bitrate |-> 1411, bit_depth |-> 16]
    ELSE [codec |-> "AAC",
          bitrate |-> IF tier = "HIGH" /\ qp["HIGH"] = "high" THEN 256 ELSE 128,
          bit_depth |-> NoneInt]

\* The record get_track_info returns.
TrackInfo(error, tier) ==
    LET c == CodecOf(tier, quality_parse) IN
    [kind |-> "TrackInfo", error |-> error, codec |-> c.codec,
     bitrate |-> c.bitrate, bit_depth |-> c.bit_depth]

\* The arguments of a call.
CallArgs(id, data, tier) ==
    [kind |-> "args", id |-> id, data |-> data, tier |-> tier]

\* get_track_info, lines 563-572, once it holds the track record, with the
\* requests rq made so far: the release is taken from the cache, or
\* requested.
TrackFound(data, tier, rq) ==
    IF ReleaseCached(ReleaseOfTrack, data)
    THEN CStep("returned", "track", "none", 0, <<>>, 0, rq, TrackInfo(None, tier))
    ELSE CStep("w_release", "release", "none", 0, <<>>, 0,
               Append(rq, Req("release", "meta", 0)), out)

\* The host calls an operation other than get_track_info and
\* get_track_download for the id `id`, handing in the cache `data`: the
\* first request asks for the metadata record of the id, unless the cache
\* holds it (get_track_cover, lines 658-660; get_album_info, line 513).
CallWithData(name, id, data) ==
    /\ pc = "done"
    /\ opc = "idle"
    /\ name \notin {"track_download", "track_info"}
    /\ opname' = name
    /\ args' = CallArgs(id, data, None)
    /\ IF name = "track_cover" /\ TrackCached(id, data)
       THEN CStep("returned", "track", "none", 0, <<>>, 0, <<>>,
                  [kind |-> "CoverInfo"])
       ELSE IF name = "album" /\ ReleaseCached(id, data)
       THEN CStep("w_first", "release", "tracks", 0, <<>>, 1,
                  <<Req("release", "tracks", 1)>>, out)
       ELSE CStep("w_meta", FirstEndpoint(name), "none", 0, <<>>, 0,
                  <<Req(FirstEndpoint(name), "meta", 0)>>, out)
    /\ UNCHANGED <<construction, client, upstream, cresp, cfail, playlist_data>>

\* The host calls an operation without a cache (`data=None`).
Call(name) == CallWithData(name, StrId(1), {})

\* The host calls get_track_info for the tier `tier`: the track is taken
\* from the cache or requested (lines 559-561).
CallTrackInfo(track_id, data, tier) ==
    /\ pc = "done"
    /\ opc = "idle"
    /\ opname' = "track_info"
    /\ args' = CallArgs(track_id, data, tier)
    /\ IF TrackCached(track_id, data)
       THEN TrackFound(data, tier, <<>>)
       ELSE CStep("w_meta", "track", "none", 0, <<>>, 0,
                  <<Req("track", "meta", 0)>>, out)
    /\ UNCHANGED <<construction, client, upstream, cresp, cfail, playlist_data>>

\* The quality taken from the tier alone, as if every account were Pro.
RequestQuality_ByTierAlone(tier, qp) ==
    IF tier = "HIGH" THEN "high"
    ELSE IF tier \in {"LOSSLESS", "HIFI"} THEN "lossless"
    ELSE "medium"

\* get_track_download, line 670: `self.quality_parse[quality_tier]`
RequestQuality(tier, qp) == qp[tier]

\* get_track_download, lines 670-672: the request carries the quality the
\* mapping gives for the tier asked for.
CallDownload(tier) ==
    /\ pc = "done"
    /\ opc = "idle"
    /\ opname' = "track_download"
    /\ args' = CallArgs(StrId(1), {}, tier)
    /\ CStep("w_meta", "download", "none", 0, <<>>, 0,
             <<[endpoint |-> "download", what |-> "meta", page |-> 0,
                tier |-> tier, quality |-> RequestQuality(tier, quality_parse)]>>,
             out)
    /\ UNCHANGED <<construction, client, upstream, cresp, cfail, playlist_data>>

\* An operation returns the record o.
CReturn(o) ==
    CStep("returned", endpoint, phase, total_tracks, tracks, page, creqs, o)

\* The answer to the first request of an operation: for a list operation
\* the metadata record (get_playlist / get_chart / get_artist / get_label /
\* get_release), followed by the request for page 1; for get_track_info the
\* track, followed by the request for its release; for the others the one
\* answer the operation needs (get_track_download, lines 674-680, raises
\* when the answer has no `location` or an empty one).  m is the metadata a
\* playlist or chart record carries.
MetaResponseWith(r, m) ==
    /\ opc = "w_meta"
    /\ r \in DownloadResponses => opname = "track_download"
    /\ LET a == CatalogAnswer(r) IN
       /\ cresp' = a
       /\ playlist_data' = IF a.ok /\ opname = "playlist"
                           THEN [person |-> m.person, date |-> m.date,
                                 image |-> m.image, endpoint |-> endpoint]
                           ELSE playlist_data
       /\ cfail' = IF a.ok THEN cfail ELSE cfail + 1
       /\ IF a.ok /\ opname \in Paginated
          THEN CStep("w_first", endpoint, "tracks", 0, <<>>, 1,
                     Append(creqs, Req(endpoint, "tracks", 1)), out)
          ELSE IF a.ok /\ opname = "track_info"
          THEN TrackFound(args.data, args.tier, creqs)
          ELSE IF a.ok /\ opname = "search"
          THEN CReturn([kind |-> "SearchResults"])
          ELSE IF a.ok /\ opname = "track_cover"
          THEN CReturn([kind |-> "CoverInfo"])
          ELSE IF a.ok /\ opname = "track_download"
          THEN IF Falsy(Location(r))
               THEN CRaise("ModuleError", "stream_unavailable",
                           [type |-> "none", id |-> "none"])
               ELSE CReturn([kind |-> "TrackDownloadInfo", file_url |-> Location(r)])
          ELSE IF opname = "playlist" THEN PlaylistAttemptFailed(a)
          ELSE IF opname = "album" /\ a.type = "BeatsourceError"
          THEN CStep("returned", endpoint, phase, total_tracks, tracks, page,
                     creqs, [kind |-> "None", notice |-> a.id])
          ELSE CRaise(a.type, a.id, [type |-> a.type, id |-> a.id])
    /\ ClientAfterGet(r)
    /\ UNCHANGED <<construction, opname, upstream, args>>

\* The answer to the first request, a playlist or chart record carrying
\* all of its metadata.
MetaResponse(r) == MetaResponseWith(r, CompleteMetadata)

\* get_track_info, lines 567-572: the answer to the request for the release
\* of the track; a ConnectionError is caught, and names the region lock when
\* its text holds "Territory Restricted.".
ReleaseResponse(r) ==
    /\ opc = "w_release"
    /\ LET a == CatalogAnswer(r) IN
       /\ cresp' = a
       /\ cfail' = IF a.ok THEN cfail ELSE cfail + 1
       /\ IF a.ok
          THEN CReturn(TrackInfo(None, args.tier))
          ELSE IF a.type = "ConnectionError"
          THEN CReturn(TrackInfo(IF Contains(a.text, D_Territory_Restricted)
                                 THEN "region locked" ELSE None, args.tier))
          ELSE CRaise(a.type, a.id, [type |-> a.type, id |-> a.id])
    /\ ClientAfterGet(r)
    /\ UNCHANGED <<construction, opname, upstream, args, playlist_data>>

\* The answer to the request for page 1 of a list: the total is read and
\* the page loop is entered.
FirstPageResponse(r) ==
    /\ opc = "w_first"
    /\ LET a == CatalogAnswer(r)
           first == TracksOfPage(endpoint, PageItems(upstream, 1))
           total == IF opname = "playlist" THEN PlaylistTotal(upstream.count, first)
                    ELSE IF opname = "label" THEN LabelTotal(upstream.count, first)
                    ELSE upstream.count
           more == IF opname = "playlist"
                   THEN total > Len(first) /\ PlaylistLastPage(total) >= 2
                   ELSE LastPage(total) >= 2
       IN
       /\ cresp' = a
       /\ cfail' = IF a.ok THEN cfail ELSE cfail + 1
       /\ IF ~a.ok
          THEN IF opname = "playlist" THEN PlaylistAttemptFailed(a)
               ELSE IF opname = "label" THEN ListDone(<<>>, total_tracks)
               ELSE CRaise(a.type, a.id, [type |-> a.type, id |-> a.id])
          ELSE IF more
          THEN CStep("w_page", endpoint, phase, total, first, 2,
                     Append(creqs, Req(endpoint, phase, 2)), out)
          ELSE ListDone(first, total)
    /\ ClientAfterGet(r)
    /\ UNCHANGED <<construction, opname, upstream, args, playlist_data>>

\* The answer to the request for a later page.
PageResponse(r) ==
    /\ opc = "w_page"
    /\ LET a == CatalogAnswer(r)
           new == TracksOfPage(endpoint, PageItems(upstream, page))
           all == tracks \o new
       IN
       /\ cresp' = a
       /\ cfail' = IF a.ok THEN cfail ELSE cfail + 1
       /\ IF ~a.ok
          THEN IF opname \in {"playlist", "label"} THEN ListDone(tracks, total_tracks)
               ELSE CRaise(a.type, a.id, [type |-> a.type, id |-> a.id])
          ELSE IF opname = "playlist"
          THEN IF new = <<>> THEN ListDone(tracks, total_tracks)
               ELSE IF Len(all) >= total_tracks \/ page >= PlaylistLastPage(total_tracks)
               THEN ListDone(all, total_tracks)
               ELSE CStep("w_page", endpoint, phase, total_tracks, all, page + 1,
                          Append(creqs, Req(endpoint, phase, page + 1)), out)
          ELSE IF page >= LastPage(total_tracks)
               THEN ListDone(all, total_tracks)
               ELSE CStep("w_page", endpoint, phase, total_tracks, all, page + 1,
                          Append(creqs, Req(endpoint, phase, page + 1)), out)
    /\ ClientAfterGet(r)
    /\ UNCHANGED <<construction, opname, upstream, args, playlist_data>>

\* The introspection answer of a Pro account, as construction recorded it.
ProValidation ==
    LET r == [status |-> 200, body |-> SubscriptionBody(S_bp_link_pro)]
        v == ValidAccount(r)
    IN [kind |-> "introspect", status |-> r.status, ok |-> v.ok, pro |-> v.pro,
        type |-> v.type, id |-> v.id, text |-> v.text, vsite |-> "init",
        json |-> r.body.json, subscription |-> r.body.subscription]

\* The module as construction leaves it for a stored session that has not
\* expired: with the subscription check disabled, or validated as Pro.
CatalogInit ==
    /\ pc = "done"
    /\ site = "none"
    /\ username = "user"
    /\ password = "secret"
    /\ disable_subscription_check \in BOOLEAN
    /\ persisted = [access_token |-> "a0", refresh_token |-> "r0", expires |-> MaxTime]
    /\ access_token = persisted.access_token
    /\ refresh_token = persisted.refresh_token
    /\ expires = persisted.expires
    /\ cookies = FALSE
    /\ session = persisted
    /\ refresh_data = "unset"
    /\ now = 1
    /\ lastReq = [kind |-> "none"]
    /\ err = NoError
    /\ IF disable_subscription_check
       THEN /\ vsite = "none"
            /\ reqs = <<>>
            /\ lastResp = [kind |-> "none"]
            /\ quality_parse = InitialQualityParse
       ELSE /\ vsite = "init"
            /\ reqs = <<"introspect">>
            /\ lastResp = ProValidation
            /\ quality_parse = UpgradeQuality(InitialQualityParse)
    /\ CatalogIdle
    /\ upstream \in Upstreams

\* ------------------------------------------- playlists with any metadata
\* The module after construction, asked for a list of two pages.
MetadataInit ==
    /\ CatalogInit
    /\ upstream = [count |-> per_page + 1, actual |-> per_page + 1,
                   flavor |-> "plain"]

\* get_playlist_info for records with every combination of metadata.
MetadataNext ==
    \/ Call("playlist")
    \/ \E r \in CatalogResponses :
          \E m \in IF Get(r).ok THEN Metas ELSE {CompleteMetadata} :
             MetaResponseWith(r, m)
    \/ \E r \in CatalogResponses : FirstPageResponse(r)
    \/ \E r \in CatalogResponses : PageResponse(r)

MetadataSpec == MetadataInit /\ [][MetadataNext]_vars

\* ------------------------------------------------- artwork URLs, applied
\* The cover URLs of the upstream: what precedes the resolution, the
\* resolution (the template or a literal of two numbers of 3 to 4 digits)
\* and what follows it.
CoverUrls ==
    LET UrlHeads == {<<"a","/">>, <<"a","/","1","2","/">>, <<"i","_">>, <<"9","x","/">>}
        UrlNumbers ==
            {<<"1","0","0">>, <<"5","0","0">>, <<"1","4","0","0">>, <<"9","9","9","9">>}
        UrlResolutions ==
            {T_template} \cup {w \o <<"x">> \o h : w \in UrlNumbers, h \in UrlNumbers}
        UrlTails ==
            {<<>>, <<"/","b",".","j">>, <<"/","5","6","x","5","6">>,
             <<"/","2","5","0","x","2","5","0","/","b">>, <<"-","1","2","3","4","5">>}
    IN  {h \o r \o t : h \in UrlHeads, r \in UrlResolutions, t \in UrlTails}

\* The sizes asked for: below 100, from 100 to the cap, above the cap.
Sizes == {0, 56, 99, 100, 500, max_size, max_size + 1, 2000}

\* The module after construction, with nothing to page through.
ArtworkInit ==
    /\ CatalogInit
    /\ upstream = [count |-> 0, actual |-> 0, flavor |-> "plain"]

\* _generate_artwork_url is applied to cover_url for the size `size`.
Generate(cover_url, size) ==
    LET g == generate_artwork_url(cover_url, size) IN
    /\ pc = "done"
    /\ opname' = "generate_artwork_url"
    /\ opc' = "returned"
    /\ args' = [kind |-> "artwork", cover_url |-> cover_url, size |-> size,
                applied |-> IF opc = "idle" THEN 1 ELSE args.applied + 1]
    /\ out' = IF g.ok THEN [kind |-> "url", url |-> g.text]
              ELSE [kind |-> "raised", type |-> "ValueError", id |-> "format",
                    cause |-> [type |-> "none", id |-> "none"],
                    endpoint |-> endpoint]
    /\ UNCHANGED <<construction, client, upstream, endpoint, phase, total_tracks,
                   tracks, page, creqs, cresp, cfail, playlist_data>>

\* The host asks for the artwork of a cover URL.
GenerateFirst(cover_url, size) ==
    /\ opc = "idle"
    /\ Generate(cover_url, size)

\* The URL returned is handed to _generate_artwork_url again, for the same
\* size.
GenerateAgain ==
    /\ opname = "generate_artwork_url" /\ opc = "returned"
    /\ out.kind = "url"
    /\ args.applied = 1
    /\ Generate(out.url, args.size)

ArtworkNext ==
    \/ \E u \in CoverUrls, s \in Sizes : GenerateFirst(u, s)
    \/ GenerateAgain

ArtworkSpec == ArtworkInit /\ [][ArtworkNext]_vars

CatalogNext ==
    \/ \E name \in Operations : Call(name)
    \/ \E tier \in Tiers : CallTrackInfo(StrId(1), {}, tier)
    \/ \E tier \in Tiers : CallDownload(tier)
    \/ \E r \in CatalogResponses \cup DownloadResponses : MetaResponse(r)
    \/ \E r \in CatalogResponses : ReleaseResponse(r)
    \/ \E r \in CatalogResponses : FirstPageResponse(r)
    \/ \E r \in CatalogResponses : PageResponse(r)

CatalogSpec == CatalogInit /\ [][CatalogNext]_vars

\* ----------------------------------------------- operations given a cache
\* The module after construction, asked for a release of one full page.
CacheInit ==
    /\ CatalogInit
    /\ upstream = [count |-> per_page, actual |-> per_page, flavor |-> "plain"]

\* The three operations that read the `data` cache, called with either form
\* of the id and with every cache.
CacheNext ==
    \/ \E id \in TrackIds, data \in Caches, tier \in Tiers :
          CallTrackInfo(id, data, tier)
    \/ \E id \in TrackIds, data \in Caches : CallWithData("track_cover", id, data)
    \/ \E id \in ReleaseIds, data \in Caches : CallWithData("album", id, data)
    \/ \E r \in CatalogResponses : MetaResponse(r)
    \/ \E r \in CatalogResponses : ReleaseResponse(r)
    \/ \E r \in CatalogResponses : FirstPageResponse(r)
    \/ \E r \in CatalogResponses : PageResponse(r)

CacheSpec == CacheInit /\ [][CacheNext]_vars

\* ================================================================= claims
\* The step that receives the answer to the request in flight at `w`.
Answered(w) == pc = w /\ pc' # w

\* The message of an exception names a subscription or a link.
NamesSubscriptionOrLink(text) ==
    \/ Contains(Lower(text), <<"s","u","b","s","c","r","i","p","t","i","o","n">>)
    \/ Contains(Lower(text), <<"l","i","n","k">>)

\* The three stored fields are None.
StoredCleared(p) ==
    p.access_token = None /\ p.refresh_token = None /\ p.expires = NoneInt

\* C1: the first upstream request of construction is decided by the stored
\* session: the login request when no refresh_token is stored; the refresh
\* request when one is stored and the session is expired, that is, the
\* clock is not before its expiry; the introspection request, with no login
\* or refresh request before it, when one is stored and the clock is before
\* its expiry.
C1_FirstRequest ==
    [][(reqs = <<>> /\ reqs' # <<>>) =>
         /\ Len(reqs') = 1
         /\ (persisted.refresh_token = None => reqs'[1] = "login")
         /\ (persisted.refresh_token # None /\ ~(now < persisted.expires)
               => reqs'[1] = "refresh")
         /\ (persisted.refresh_token # None /\ now < persisted.expires
               => reqs'[1] = "introspect")]_vars

\* C2: for a stored session with a refresh_token the expiry test of
\* construction skips the refresh if and only if now < expires, also when
\* now = expires.
C2_ExpiryGate ==
    [][(pc = "gate" /\ pc' # "gate" /\ reqs = <<>> /\ session.refresh_token # None) =>
         ((pc' = "validate") <=> (now < session.expires))]_vars

\* C3: every authorized catalog request is issued while now < expires of
\* the session it carries.
C3_RequestOnlyWhileValid ==
    lastReq.kind # "none" => lastReq.at < lastReq.expires

\* C4: when refresh returns an error value during construction, the three
\* stored fields are cleared and login() is called next; the refresh failure
\* is not raised; and construction fails only if that re-login (the login()
\* call of refresh_login) fails.
C4_FailsOnlyIfReloginFails ==
    [][/\ (Answered("w_refresh") /\ refresh_data' = "error") =>
            /\ StoredCleared(persisted')
            /\ pc' = "login" /\ site' = "refresh"
            /\ reqs' = reqs
       /\ (refresh_data' = "error" /\ pc' = "failed") => site' = "refresh"]_vars

\* C5 as claimed: whenever valid_account fails during construction with a
\* message that names a subscription or a link, wherever it was called from,
\* the stored session is cleared and login() is called instead of the
\* failure leaving construction.
C5_AlwaysClearsAndRelogins ==
    [][(Answered("w_introspect") /\ ~lastResp'.ok
          /\ NamesSubscriptionOrLink(lastResp'.text)) =>
         /\ StoredCleared(persisted')
         /\ pc' = "login"]_vars

\* C5 as amended: that holds of the valid_account call of __init__ (line
\* 62), whichever path led to it; the same failure of the valid_account call
\* inside login() (line 133) leaves construction as its error, with the
\* stored session as it was.
C5_ClearsAndReloginsAtInit ==
    [][(Answered("w_introspect") /\ ~lastResp'.ok
          /\ NamesSubscriptionOrLink(lastResp'.text)) =>
         IF vsite = "init"
         THEN /\ StoredCleared(persisted')
              /\ pc' = "login" /\ site' = "except"
              /\ err' = NoError
         ELSE /\ pc' = "failed"
              /\ err' = [type |-> lastResp'.type, id |-> lastResp'.id]
              /\ persisted' = persisted]_vars

\* The validation of line 62 failed on a 401 whose body names a
\* subscription; the stored session is cleared and login() is entered.
C5_Witness ==
    /\ pc = "login" /\ site = "except"
    /\ lastResp.kind = "introspect" /\ lastResp.vsite = "init"
    /\ lastResp.id = "unauthorized"
    /\ StoredCleared(persisted)

\* C6: a valid_account failure whose message names neither a subscription
\* nor a link leaves construction as its error in that very step, with the
\* stored session and the requests as they were; and once construction has
\* failed no request is issued and the stored session does not change.
C6_OtherFailureIsFatal ==
    [][/\ (Answered("w_introspect") /\ ~lastResp'.ok
             /\ ~NamesSubscriptionOrLink(lastResp'.text)) =>
            /\ pc' = "failed"
            /\ err' = [type |-> lastResp'.type, id |-> lastResp'.id]
            /\ persisted' = persisted
            /\ reqs' = reqs
       /\ pc = "failed" =>
            /\ pc' = "failed"
            /\ reqs' = reqs
            /\ persisted' = persisted]_vars

\* The validation of line 62 failed on a stored session with an HTTP error
\* that names no subscription; construction failed and the session is still
\* stored.
C6_Witness ==
    /\ pc = "failed"
    /\ lastResp.kind = "introspect" /\ lastResp.vsite = "init"
    /\ err.id = "http_error"
    /\ persisted.refresh_token = "r0"

\* In the request log every authorize request directly follows a login
\* request and every token request directly follows an authorize request.
AuthRequestsInOrder(log) ==
    \A i \in 1..Len(log) :
        /\ log[i] = "authorize" => (i > 1 /\ log[i - 1] = "login")
        /\ log[i] = "token" => (i > 1 /\ log[i - 1] = "authorize")

\* C7: auth issues login, authorize, token in this order, each at most once
\* per call; authorize only after a login answer with status 200 that
\* carries a sessionid cookie, token only after an authorize answer with
\* status 302 and a Location carrying a code; a failed authorize step ends
\* construction without a token request.
C7_AuthStepsInOrder ==
    [][/\ AuthRequestsInOrder(reqs')
       /\ (Len(reqs') > Len(reqs) /\ reqs'[Len(reqs')] = "authorize") =>
            /\ lastResp'.kind = "login" /\ lastResp'.status = 200
            /\ lastResp'.setcookie
       /\ (Len(reqs') > Len(reqs) /\ reqs'[Len(reqs')] = "token") =>
            /\ lastResp'.kind = "authorize" /\ lastResp'.status = 302
            /\ lastResp'.location = "code"
       /\ (Answered("w_authorize")
             /\ ~(lastResp'.status = 302 /\ lastResp'.location = "code")) =>
            /\ pc' = "failed"
            /\ reqs' = reqs]_vars

\* C8: a non-200 login answer that reports blank username and password
\* fails auth with the credentials-missing error; every other non-200
\* answer, and a 200 answer that sets no sessionid cookie, fails it with an
\* authentication error; in all these cases no authorize request is issued.
C8_LoginClassification ==
    [][Answered("w_login") =>
         /\ (lastResp'.status # 200 /\ lastResp'.body = "blank") =>
              (pc' = "failed" /\ err'.id = "credentials_missing" /\ reqs' = reqs)
         /\ (lastResp'.status # 200 /\ lastResp'.body # "blank") =>
              (pc' = "failed" /\ err'.id = "login_failed" /\ reqs' = reqs)
         /\ (lastResp'.status = 200 /\ ~lastResp'.setcookie) =>
              (/\ pc' = "failed"
               /\ err'.id \in {"no_sessionid_cookie", "login_non_field_errors"}
               /\ reqs' = reqs)]_vars

\* C9: in every auth call, also a later one on the same client, a login
\* answer with status 200, no non_field_errors and no sessionid cookie fails
\* auth with the sessionid-cookie-not-found error and issues no authorize
\* request.
C9_NoCookieNoLogin ==
    [][(Answered("w_login") /\ lastResp'.status = 200
          /\ lastResp'.body # "non_field_errors" /\ ~lastResp'.setcookie) =>
         /\ pc' = "failed"
         /\ err' = [type |-> "BeatsourceError", id |-> "no_sessionid_cookie"]
         /\ reqs' = reqs]_vars

\* C10: auth fails when the token answer is non-200 or lacks access_token,
\* refresh_token or expires_in; when auth succeeds the client holds the
\* returned access_token and refresh_token and expires = now + expires_in.
C10_TokenExchange ==
    [][Answered("w_token") =>
         /\ (\/ lastResp'.status # 200
             \/ lastResp'.access_token = None
             \/ lastResp'.refresh_token = None
             \/ lastResp'.expires_in = NoneInt) =>
              /\ pc' = "failed"
              /\ err'.id \in {"token_failed", "token_missing_fields"}
         /\ (pc' # "failed" \/ err'.id = "error_description") =>
              /\ lastResp'.status = 200
              /\ access_token' = lastResp'.access_token
              /\ access_token' \in AccessTokens
              /\ refresh_token' = lastResp'.refresh_token
              /\ refresh_token' \in RefreshTokens
              /\ expires' = now + lastResp'.expires_in
              /\ lastResp'.expires_in # NoneInt]_vars

\* A token answer with a positive expires_in was accepted: the client holds
\* its tokens and an expiry that lies after the clock.
C10_Witness ==
    /\ pc = "w_introspect" /\ vsite = "login"
    /\ lastResp.kind = "token" /\ lastResp.expires_in > 0
    /\ access_token = lastResp.access_token
    /\ refresh_token = lastResp.refresh_token
    /\ expires = lastResp.at + lastResp.expires_in
    /\ now = lastResp.at

\* The mapping with every tier at "medium".
AllMedium == [t \in Tiers |-> "medium"]

\* The mapping of a Pro subscription.
ProMapping ==
    [t \in Tiers |-> IF t = "HIGH" THEN "high"
                     ELSE IF t \in {"LOSSLESS", "HIFI"} THEN "lossless"
                     ELSE "medium"]

\* The subscription string contains "pro", in whatever case.
NamesPro(sub) == Contains(Lower(sub), <<"p","r","o">>)

\* C11: refresh does not raise on a non-200 answer but returns an error
\* value that makes its caller re-authenticate; when it reports success the
\* client holds the answer's access_token and expires = now + expires_in,
\* and its refresh_token is the answer's rotated token if the answer carries
\* one and the previous refresh_token otherwise.
C11_RefreshOutcome ==
    [][Answered("w_refresh") =>
         /\ lastResp'.status # 200 =>
              /\ refresh_data' = "error"
              /\ pc' = "login"
         /\ refresh_data' = "None" =>
              /\ access_token' = lastResp'.access_token
              /\ expires' = now + lastResp'.expires_in
              /\ refresh_token' = IF lastResp'.refresh_token \in RefreshTokens
                                  THEN lastResp'.refresh_token
                                  ELSE refresh_token]_vars

\* C12: construction starts with every tier at "medium"; the mapping changes
\* only in a validation step whose subscription contains "pro" (in any
\* case), and after such a step HIGH is "high", LOSSLESS and HIFI are
\* "lossless" and the other tiers are "medium"; an introspection answer
\* without a subscription fails the validation with the no-subscription
\* error and leaves the mapping as it was.
C12_QualityTierMapping ==
    /\ quality_parse = AllMedium
    /\ [][/\ quality_parse' \in {AllMedium, ProMapping}
          /\ quality_parse' # quality_parse =>
               /\ Answered("w_introspect")
               /\ lastResp'.ok /\ NamesPro(lastResp'.subscription)
          /\ (Answered("w_introspect") /\ lastResp'.ok) =>
               quality_parse' = IF NamesPro(lastResp'.subscription)
                                THEN ProMapping ELSE quality_parse
          /\ (Answered("w_introspect") /\ lastResp'.status = 200
                /\ lastResp'.json /\ lastResp'.subscription = <<>>) =>
               /\ ~lastResp'.ok
               /\ lastResp'.type = "ModuleError" /\ lastResp'.id = "no_subscription"
               /\ quality_parse' = quality_parse]_vars

\* A validation confirmed the subscription "Pro": construction ended with
\* the upgraded mapping.
C12_Witness ==
    /\ pc = "done"
    /\ lastResp.kind = "introspect" /\ lastResp.ok
    /\ lastResp.subscription = <<"P","r","o">>
    /\ quality_parse["HIGH"] = "high"
    /\ quality_parse["LOSSLESS"] = "lossless" /\ quality_parse["HIFI"] = "lossless"
    /\ quality_parse["MEDIUM"] = "medium"

\* C13: on no path of construction is the upgrade of the mapping applied
\* more than once: a validation that confirms a Pro subscription finds the
\* mapping not yet upgraded.
C13_UpgradeAppliedOnce ==
    [][(Answered("w_introspect") /\ lastResp'.ok /\ NamesPro(lastResp'.subscription)) =>
         quality_parse = AllMedium]_vars

\* C14: tokens that authenticate or refresh obtained during construction
\* are stored: whenever construction has ended, with success or with an
\* error, and the client holds an access_token handed out meanwhile, the
\* stored triple equals the client's access_token, refresh_token and
\* expires.
C14_PersistedEqualsSession ==
    (pc \in {"done", "failed"} /\ access_token \in AccessTokens) =>
        persisted = [access_token |-> access_token, refresh_token |-> refresh_token,
                     expires |-> expires]

\* The step that receives the answer to a catalog request.
CatalogAnswered ==
    /\ opc \in {"w_meta", "w_release", "w_first", "w_page"}
    /\ (creqs' # creqs \/ opc' # opc)

\* C15: after construction no step of a catalog operation, whether its
\* request succeeds or fails, changes access_token, refresh_token, expires
\* or the quality mapping.
C15_CatalogKeepsSession ==
    [][pc = "done" =>
         /\ access_token' = access_token
         /\ refresh_token' = refresh_token
         /\ expires' = expires
         /\ quality_parse' = quality_parse]_vars

\* An operation failed on a 401 and the client still holds its tokens and
\* the upgraded mapping.
C15_Witness ==
    /\ opc = "raised" /\ cresp.status = 401
    /\ access_token = "a0" /\ refresh_token = "r0" /\ expires = MaxTime
    /\ quality_parse["HIGH"] = "high"

\* C16: the status of the answer decides what an authorized GET does: 200,
\* 201 and 202 return the parsed body; 401 fails as unauthorized; 403 with a
\* detail containing "Territory" fails as region locked; every other status
\* outside 2xx, a 403 without such a detail included, fails with the HTTP
\* error carrying the status and the body.
C16_StatusDecidesOutcome ==
    [][CatalogAnswered =>
         LET a == cresp'
             territory == a.status = 403
                          /\ Contains(a.detail, <<"T","e","r","r","i","t","o","r","y">>)
         IN /\ (a.status \in {200, 201, 202} /\ a.json) => a.ok
            /\ a.status = 401 => (~a.ok /\ a.id = "unauthorized")
            /\ territory => (~a.ok /\ a.id = "region_locked")
            /\ (a.status \in {403, 404, 500} /\ ~territory) =>
                 /\ ~a.ok /\ a.type = "ConnectionError" /\ a.id = "http_error"
                 /\ a.text = <<"H","T","T","P"," ">> \o StatusText(a.status)
                               \o <<":"," ">> \o a.body]_vars

\* C17: in get_playlist_info the chart endpoint is asked if and only if a
\* request of the playlist attempt failed with status 404; a failure with
\* another status fails the operation at once with no further request; once
\* the chart endpoint is asked the operation stays with it, and a failure of
\* the chart attempt fails the operation with the chart error and no
\* further request.
C17_FallbackOnly404 ==
    [][(opname = "playlist" /\ CatalogAnswered /\ opc \in {"w_meta", "w_first"}) =>
         /\ endpoint = "playlist" =>
              ((endpoint' = "chart") <=> (cresp'.status = 404))
         /\ (endpoint = "playlist" /\ ~cresp'.ok /\ cresp'.status # 404) =>
              (opc' = "raised" /\ creqs' = creqs)
         /\ endpoint = "chart" => endpoint' = "chart"
         /\ (endpoint = "chart" /\ ~cresp'.ok) =>
              /\ opc' = "raised" /\ creqs' = creqs
              /\ out'.endpoint = "chart"
              /\ out'.cause = [type |-> cresp'.type, id |-> cresp'.id]]_vars

\* The pages requested of the list `what`, in the order of the requests.
PagesRequested(what) ==
    LET rs == SelectSeq(creqs, LAMBDA q : q.what = what)
    IN [i \in 1..Len(rs) |-> rs[i].page]

\* max(1, ceil(count / 100)) pages, in increasing order.
PagesExpected(count) ==
    LET n == IF count = 0 THEN 1 ELSE (count + 99) \div 100
    IN [i \in 1..n |-> i]

\* C18: when the upstream returns full pages consistent with count and no
\* request fails, every paginated fetch issues exactly
\* max(1, ceil(count / 100)) page requests, in increasing page order, and
\* the merged list has count entries.
C18_PageCount ==
    (/\ opc = "returned" /\ opname \in Paginated /\ cfail = 0
     /\ upstream.actual = upstream.count /\ upstream.flavor = "plain") =>
        /\ PagesRequested("tracks") = PagesExpected(upstream.count)
        /\ Len(out.tracks) = upstream.count
        /\ opname = "label" =>
             /\ PagesRequested("releases") = PagesExpected(upstream.count)
             /\ Len(out.albums) = upstream.count

\* C19 as claimed: in the list get_playlist_info ends with, of length N,
\* every track at 0-based position i has track_number i + 1 and
\* total_tracks N, and the cache maps its id to that record.
C19_EveryTrackNumbered ==
    (opc = "returned" /\ opname = "playlist") =>
        \A i \in 1..Len(out.tracks) :
            /\ out.tracks[i].track_number = i
            /\ out.tracks[i].total_tracks = Len(out.tracks)
            /\ out.tracks[i].id \in DOMAIN out.cache
            /\ out.cache[out.tracks[i].id] = out.tracks[i]

\* C19 as amended: that holds of every track that has an id, N counting the
\* tracks without one too; a track without an id gets no number and no
\* cache entry; and of several tracks with one id the cache holds the last.
C19_TracksWithIdNumbered ==
    (opc = "returned" /\ opname = "playlist") =>
        LET ts == out.tracks
            N == Len(ts)
        IN /\ N = Len(tracks)
           /\ DOMAIN out.cache = {ts[i].id : i \in {j \in 1..N : ts[j].id # 0}}
           /\ \A i \in 1..N :
                IF ts[i].id = 0
                THEN ts[i].track_number = NoneInt /\ ts[i].total_tracks = NoneInt
                ELSE /\ ts[i].id = tracks[i].id
                     /\ ts[i].track_number = i
                     /\ ts[i].total_tracks = N
                     /\ out.cache[ts[i].id].id = ts[i].id
                     /\ out.cache[ts[i].id].total_tracks = N
                     /\ out.cache[ts[i].id].track_number >= i
                     /\ ts[out.cache[ts[i].id].track_number].id = ts[i].id
                     /\ (\A j \in (i + 1)..N : ts[j].id # ts[i].id) =>
                          out.cache[ts[i].id] = ts[i]

\* A chart of three pages in which two tracks share an id was numbered.
C19_Witness ==
    /\ opc = "returned" /\ opname = "playlist" /\ endpoint = "chart"
    /\ upstream.flavor = "dup"
    /\ Len(out.tracks) = MaxCount
    /\ out.tracks[MaxCount].track_number = MaxCount
    /\ out.cache[1].track_number = 2

\* C20: in every paginated fetch a failure of a request for a page after
\* the first only ends the page loop: the operation does not raise, and
\* what it returns is built from the pages fetched so far.
C20_PageFailureTruncates ==
    [][(opc = "w_page" /\ CatalogAnswered /\ ~cresp'.ok) =>
         /\ opc' # "raised"
         /\ (opc' = "returned" /\ opname = "playlist") =>
              Len(out'.tracks) = Len(tracks)]_vars

\* The step that receives the answer to a request for a release record: the
\* second request of get_track_info, the first of get_album_info.
ReleaseAnswered ==
    /\ CatalogAnswered
    /\ \/ opname = "track_info" /\ opc = "w_release"
       \/ opname = "album" /\ opc = "w_meta"

\* C21: when the upstream answers a release request with status 403 and a
\* detail holding "Territory", get_track_info does not raise but returns a
\* record whose error is set, and get_album_info does not raise but returns
\* nothing after printing its notice.
C21_RegionLockIsSoft ==
    [][(ReleaseAnswered /\ cresp'.status = 403 /\ cresp'.json
          /\ Contains(cresp'.detail, T_Territory)) =>
         /\ opc' = "returned"
         /\ opname = "track_info" =>
              (out'.kind = "TrackInfo" /\ out'.error # None)
         /\ opname = "album" =>
              (out'.kind = "None" /\ out'.notice = "region_locked")]_vars

\* The ids of the records of ts that have one, as get_label_info lists them.
LabelIds(ts) == IdsOf(SelectSeq(ts, LAMBDA t : t.id # 0))

\* The step of get_label_info in which a request of the fetch `ph` fails.
LabelFetchFails(ph) ==
    /\ opname = "label" /\ phase = ph
    /\ opc \in {"w_first", "w_page"} /\ CatalogAnswered /\ ~cresp'.ok

\* C22 as claimed: once the label record is fetched get_label_info returns
\* a record; a failure in the tracks fetch yields an empty track-id list and
\* leaves the releases fetch as it would have been; a failure in the
\* releases fetch yields an empty album-id list and leaves the track-id list
\* as it was.
C22_FailedFetchYieldsEmptyList ==
    [][/\ LabelFetchFails("tracks") =>
            /\ out'.tracks = <<>>
            /\ opc' = "w_first" /\ phase' = "releases"
       /\ LabelFetchFails("releases") =>
            /\ opc' = "returned"
            /\ out'.albums = <<>>
            /\ out'.tracks = out.tracks]_vars

\* C22 as amended: a failure of the first request of a fetch yields the
\* empty list, a failure of a later page the ids of the pages fetched
\* before it; after the tracks fetch, failed or not, the releases fetch
\* starts from its first page with nothing fetched; no step of the releases
\* fetch changes the track-id list; and get_label_info raises only on the
\* request for the label record.
C22_FailedFetchKeepsPagesSoFar ==
    [][/\ LabelFetchFails("tracks") =>
            /\ out'.tracks = (IF opc = "w_first" THEN <<>> ELSE LabelIds(tracks))
            /\ opc' = "w_first" /\ phase' = "releases"
            /\ tracks' = <<>> /\ page' = 1
            /\ creqs' = Append(creqs, Req("label", "releases", 1))
       /\ LabelFetchFails("releases") =>
            /\ opc' = "returned"
            /\ out'.kind = "ArtistInfo"
            /\ out'.albums = (IF opc = "w_first" THEN <<>> ELSE LabelIds(tracks))
       /\ (opname = "label" /\ phase = "releases" /\ CatalogAnswered) =>
            out'.tracks = out.tracks
       /\ (opname = "label" /\ opc' = "raised") => opc = "w_meta"]_vars

\* The second page of the tracks of a label failed, and all three pages of
\* its releases were fetched.
C22_Witness ==
    /\ opname = "label" /\ opc = "returned" /\ cfail = 1
    /\ upstream.count = MaxCount /\ upstream.actual = MaxCount
    /\ Len(out.tracks) = per_page
    /\ Len(out.albums) = MaxCount

\* Whether the cache of the call holds a record under either form of the
\* id whose integer is n.
CachedEitherForm(n) ==
    args.kind = "args" /\ (IntId(n) \in args.data \/ StrId(n) \in args.data)

\* Whether the operation has asked the upstream for the record of endpoint ep.
Requested(ep) == \E i \in 1..Len(creqs) : creqs[i] = Req(ep, "meta", 0)

\* C23: a record the cache holds under the integer form of an id is found
\* by a lookup with the decimal-string form and the other way round, for
\* the track of get_track_info and get_track_cover, for the release of
\* get_track_info and for the release of get_album_info: when the cache
\* holds the record under either form the operation issues no request for
\* it.
C23_EitherFormHits ==
    /\ (opname \in {"track_info", "track_cover"} /\ CachedEitherForm(args.id.value))
         => ~Requested("track")
    /\ (opname = "track_info" /\ CachedEitherForm(ReleaseOfTrack.value))
         => ~Requested("release")
    /\ (opname = "album" /\ CachedEitherForm(args.id.value))
         => ~Requested("release")

\* C24: for every tier t and both states of the mapping, get_track_info
\* reports the lossless class (FLAC, 16 bit, 1411) if and only if t is
\* LOSSLESS or HIFI; otherwise it reports the lossy class (AAC, no bit
\* depth), with bitrate 256 if and only if t is HIGH and the mapping gives
\* "high" for HIGH, and 128 if not.
C24_CodecFromTier ==
    (opname = "track_info" /\ opc = "returned") =>
        LET lossless == /\ out.codec = "FLAC"
                        /\ out.bit_depth = 16
                        /\ out.bitrate = 1411
            lossy == out.codec = "AAC" /\ out.bit_depth = NoneInt
        IN /\ lossless <=> args.tier \in {"LOSSLESS", "HIFI"}
           /\ lossless \/ lossy
           /\ lossy => /\ out.bitrate = 256 <=>
                            (args.tier = "HIGH" /\ quality_parse["HIGH"] = "high")
                       /\ out.bitrate # 256 => out.bitrate = 128

\* get_track_info was asked for HIGH under the mapping of a module without
\* the Pro upgrade, and reported 128.
C24_Witness ==
    /\ opname = "track_info" /\ opc = "returned"
    /\ args.tier = "HIGH" /\ quality_parse["HIGH"] = "medium"
    /\ out.codec = "AAC" /\ out.bitrate = 128

\* C25: get_track_download asked for tier t issues one request, for the
\* quality the mapping gives for t, which is "medium" for every tier, HIFI
\* included, while the mapping is not upgraded; it returns the `location`
\* of the answer as the file URL, and it raises its own error when the
\* answer succeeds without a location.
C25_DownloadQuality ==
    (opname = "track_download" /\ opc # "idle") =>
        /\ Len(creqs) = 1
        /\ creqs[1].endpoint = "download"
        /\ creqs[1].quality = quality_parse[args.tier]
        /\ quality_parse = InitialQualityParse => creqs[1].quality = "medium"
        /\ opc = "returned" =>
             /\ cresp.ok /\ cresp.location \in Urls
             /\ out = [kind |-> "TrackDownloadInfo", file_url |-> cresp.location]
        /\ (opc # "w_meta" /\ cresp.ok /\ cresp.location \notin Urls) =>
             /\ opc = "raised"
             /\ out.type = "ModuleError" /\ out.id = "stream_unavailable"

\* HIFI was asked for under the mapping without the upgrade: "medium" was
\* requested and the location of the answer returned.
C25_Witness ==
    /\ opname = "track_download" /\ opc = "returned"
    /\ args.tier = "HIFI" /\ quality_parse = InitialQualityParse
    /\ creqs[1].quality = "medium"
    /\ out.file_url = "u2"

\* C26: for every cover URL that is a template or carries a literal
\* resolution, and every size below 100, from 100 to 1400 or above 1400,
\* applying _generate_artwork_url to its own result for the same size
\* returns that result.
C26_ArtworkIdempotent ==
    [][(opname = "generate_artwork_url" /\ args.applied = 1
          /\ args'.applied = 2) =>
         /\ args'.cover_url = out.url /\ args'.size = args.size
         /\ out'.kind = "url"
         /\ out'.url = out.url]_vars

\* A literal resolution was rewritten for a size below 100, which the
\* second application no longer detects, next to a second resolution.
C26_Witness ==
    /\ opname = "generate_artwork_url" /\ args.applied = 2
    /\ args.size = 56
    /\ out.kind = "url"
    /\ out.url = <<"a","/","5","6","x","5","6","/","5","6","x","5","6","/","b">>

\* C27: in get_playlist_info, on either endpoint, the page loop stops as
\* soon as a page returns fewer items than a full page, or none, before
\* count is reached: no further page is requested after such a page.
C27_ShortPageStops ==
    [][(/\ opname = "playlist" /\ opc = "w_page" /\ CatalogAnswered /\ cresp'.ok
        /\ Len(PageItems(upstream, page)) < per_page) =>
         /\ opc' = "returned"
         /\ creqs' = creqs]_vars

\* The ids and the whole seconds of the tracks of ts, at the positions
\* lo..hi, that have an id and a length.
RECURSIVE WithIdAndLength(_, _, _)
WithIdAndLength(ts, lo, hi) ==
    IF lo > hi THEN [ids |-> <<>>, seconds |-> 0]
    ELSE IF lo = hi
    THEN (IF ts[lo].id = 0 \/ ts[lo].length_ms = NoneInt
          THEN [ids |-> <<>>, seconds |-> 0]
          ELSE [ids |-> <<ts[lo].id>>, seconds |-> ts[lo].length_ms \div 1000])
    ELSE LET mid == (lo + hi) \div 2
             a == WithIdAndLength(ts, lo, mid)
             b == WithIdAndLength(ts, mid + 1, hi)
         IN [ids |-> a.ids \o b.ids, seconds |-> a.seconds + b.seconds]

\* C28: the track-id list get_playlist_info returns holds exactly the ids
\* of the fetched tracks that have an id and a non-null length_ms, in fetch
\* order, and the duration is the sum of floor(length_ms / 1000) over those
\* tracks; a track lacking either is left out of both, and the operation
\* raises only when a request failed.
C28_ValidTracksOnly ==
    /\ (opname = "playlist" /\ opc = "returned") =>
         /\ out.track_ids = WithIdAndLength(tracks, 1, Len(tracks)).ids
         /\ out.duration = WithIdAndLength(tracks, 1, Len(tracks)).seconds
    /\ (opname = "playlist" /\ opc = "raised") => ~cresp.ok

\* A chart of three pages whose second track has no length_ms was returned
\* without it.
C28_Witness ==
    /\ opname = "playlist" /\ opc = "returned" /\ endpoint = "chart"
    /\ upstream.flavor = "nolength" /\ upstream.count = MaxCount
    /\ Len(tracks) = MaxCount
    /\ Len(out.track_ids) = MaxCount - 1
    /\ out.track_ids[2] = 3
    /\ out.duration > 0

\* C29: get_playlist_info raises only for a failed request: for a
\* playlist or chart record whose date, person or image is absent or null
\* it still returns a PlaylistInfo, with release_year None for the date,
\* cover_url None for the image and the default creator for the person.
C29_MetadataNeverFails ==
    /\ (opname = "playlist" /\ opc = "raised") =>
         (~cresp.ok /\ out.type = "ModuleError")
    /\ (opname = "playlist" /\ opc = "returned") =>
         /\ out.kind = "PlaylistInfo"
         /\ playlist_data.date \in {Absent, Null} => out.release_year = Null
         /\ playlist_data.image \in {Absent, Null} => out.cover_url = Null
         /\ playlist_data.person \in {Absent, Null} =>
              out.creator = (IF endpoint = "chart" THEN "Beatsource" ELSE "User")

\* How many times construction has issued the request `what`.
Requests(what) == Len(SelectSeq(reqs, LAMBDA q : q = what))

\* C30: construction ends, in success or in an error, after a bounded
\* number of exchanges: refresh is requested at most once and the login
\* exchange is started at most twice, so that clearing the session, logging
\* in and validating do not go round.
C30_AtMostTwoLogins ==
    /\ [](Requests("refresh") <= 1 /\ Requests("login") <= 2)
    /\ <>(pc \in {"done", "failed"})

\* ---------------------------------------------------------------- C31, C32
\* auth() raised: one of its three requests ended construction with an
\* exception of auth() itself (login() raising on error_description comes
\* after auth() has returned).
AuthRaised ==
    /\ pc \in {"w_login", "w_authorize", "w_token"}
    /\ pc' = "failed"
    /\ err'.id # "error_description"

\* C31: when auth() fails at any of its steps, a 200 token answer lacking
\* access_token, refresh_token or expires_in included, the client's
\* access_token, refresh_token and expires are what they were before.
C31_FailedAuthLeavesSession ==
    [][AuthRaised => UNCHANGED <<access_token, refresh_token, expires>>]_vars

\* refresh() returned an error value for its caller to authenticate again.
NeedsReauth == pc = "w_refresh" /\ Truthy(refresh_data')

\* C32: when refresh() signals that authentication is needed again, after
\* a non-200 answer or a 200 answer lacking access_token or expires_in, the
\* client's access_token, refresh_token and expires are unchanged.
C32_FailedRefreshLeavesSession ==
    [][NeedsReauth => UNCHANGED <<access_token, refresh_token, expires>>]_vars

\* ---------------------------------------------------------------- C33
\* The position in the request log of the last request for a metadata
\* record, 0 when there is none.
LastMeta ==
    LET ms == {i \in 1..Len(creqs) : creqs[i].what = "meta"} IN
    IF ms = {} THEN 0 ELSE CHOOSE i \in ms : \A j \in ms : j <= i

\* C33: within one get_playlist_info call the metadata record in use, the
\* first track page and every later page come from one endpoint kind, also
\* when the tracks request of the playlist is the one not found; the
\* playlist endpoint is never asked after the chart endpoint.
C33_OneEndpointKind ==
    opname = "playlist" =>
        /\ \A i \in 1..Len(creqs) : \A j \in i..Len(creqs) :
              creqs[i].endpoint = "chart" => creqs[j].endpoint = "chart"
        /\ \A i \in 1..Len(creqs) : creqs[i].endpoint \in {"playlist", "chart"}
        /\ \A i \in LastMeta..Len(creqs) : i >= 1 => creqs[i].endpoint = endpoint
        /\ opc \in {"w_first", "w_page", "returned"} =>
              /\ playlist_data.endpoint = endpoint
              /\ \A i \in (LastMeta + 1)..Len(creqs) :
                    creqs[i] = Req(endpoint, "tracks", i - LastMeta)
        /\ opc = "returned" => out.endpoint = endpoint

\* The playlist record was fetched, the first tracks request of the
\* playlist was not found, and the list came back from the chart endpoint
\* in two pages or more.
C33_Witness ==
    /\ opname = "playlist"
    /\ opc = "returned"
    /\ out.kind = "PlaylistInfo"
    /\ out.endpoint = "chart"
    /\ Len(creqs) >= 5
    /\ creqs[1] = Req("playlist", "meta", 0)
    /\ creqs[2] = Req("playlist", "tracks", 1)
    /\ creqs[3] = Req("chart", "meta", 0)
    /\ creqs[5] = Req("chart", "tracks", 2)
    /\ Len(out.tracks) > per_page

\* ---------------------------------------------------------------- C34
\* C34: the format get_track_info reports agrees with the quality
\* get_track_download requests for the same tier under the same mapping:
\* FLAC is reported only if "lossless" is requested, and bitrate 256 only
\* if "high" is requested.
C34_FormatAgreesWithDownload ==
    /\ (opname = "track_info" /\ opc = "returned") =>
          LET requested == RequestQuality(args.tier, quality_parse) IN
          /\ out.codec = "FLAC" => requested = "lossless"
          /\ out.bitrate = 256 => requested = "high"
    /\ (opname = "track_download" /\ opc # "idle") =>
          LET reported == CodecOf(args.tier, quality_parse) IN
          /\ reported.codec = "FLAC" => creqs[1].quality = "lossless"
          /\ reported.bitrate = 256 => creqs[1].quality = "high"
====
